---------------------------- MODULE Spec2Model ----------------------------
(***************************************************************************)
(* Floword: tool-server registry (MCPManager), conversation agent          *)
(* (MCPAgent), resumable event stream (StreamData / process_stream), stream *)
(* registry (PersistentStreamer) and ConversationController.                *)
(*                                                                         *)
(* The specifications of this module:                                      *)
(*   SpecStream        - one StreamData, its producer and its consumers    *)
(*   LiveSpecStream    - SpecStream with the consumers scheduled fairly    *)
(*   SpecStreamData    - SpecStream and add_event called by any holder     *)
(*   SpecStreamer      - the registry, its stream and the responses        *)
(*   SpecManager       - one MCPManager: construction, initialize() and    *)
(*                       cleanup()                                         *)
(*   SpecManagerCalls  - one cached MCPManager and the callers of its      *)
(*                       initialize()                                      *)
(*   SpecAgent         - one MCPAgent driving chat and permit exchanges    *)
(*   SpecManagedAgent  - one MCPManager built from any config file and the *)
(*                       permit steps of an MCPAgent built on it           *)
(*   SpecAgentExchange - the exchanges of one MCPAgent and how they end    *)
(*   LiveSpecBatch     - the permit steps of one MCPAgent, the coroutines  *)
(*                       of a batch scheduled fairly                       *)
(*   SpecNames         - tool definition names built and resolved          *)
(*   SpecConversations - create, list, info and delete of conversations    *)
(*   SpecExchanges     - chat and permit_call_tool calls of the controller *)
(*   SpecOwnership     - the controller called by owners and other users   *)
(* Variables of the components a specification does not drive keep their   *)
(* initial values in it.                                                   *)
(***************************************************************************)
EXTENDS Integers, Sequences, FiniteSets, TLC

(***************************************************************************)
(* Bounds of the model.                                                    *)
(***************************************************************************)
\* number of events the source iterator of process_stream may produce
MaxEvents == 3
\* the small capacity (max_size) a StreamData may be constructed with
SmallMaxSize == 2

\* number of chat / permit operations started on one agent
MaxExchanges == 2

\* length of the tool names (in characters) that tool servers may declare
MaxNameLen == 3

\* number of entries of the mcpServers map
MaxServers == 2

\* number of conversations created
MaxConversations == 2

\* server names a config may use
ServerNames == {"fs", "db", "web"}
\* the two kinds of ServerParams (StdioServerParameters, SSEServerParameters)
ParamKinds == {"stdio", "sse"}
\* exceptions a client handshake may raise
HandshakeErrors == {"ConnectError", "TimeoutError"}
\* the exception of MCPClient.initialize() for SSEServerParameters
SseErrors == {"TypeError"}
\* the exception AsyncExitStack.aclose() may leave with
CleanupErrors == {"CleanupError"}

\* event payloads produced by the source iterator
EventValues == {"e1", "e2"}
\* consumers of the stream (calls of stream_events).  A consumer only reads
\* StreamData (every consumer action leaves the stream's variables
\* unchanged), so one consumer that attaches at any moment with any start
\* index stands for each of several
Consumers == {"c1"}
\* capacities: a small one, and one that MaxEvents events never exceed
\* (the situation of the default max_size = 1000)
MaxSizes == {SmallMaxSize, MaxEvents + 1}

VARIABLES
    \* ---- StreamData ----
    max_size,       \* deque maxlen given to StreamData.__init__
    events,         \* StreamData.events (the deque, oldest first)
    completed,      \* StreamData.completed
    evGen,          \* identity of the asyncio.Event now in _event_added
    evSet,          \* identities of the asyncio.Event objects that are set
    srcPc,          \* process_stream: "none" (no stream yet), "running",
                    \* "exhausted" or "raised"
    produced,       \* history: every event ever passed to add_event
    evictions,      \* history: number of events the deque has dropped
    cPc,            \* per consumer: position of its stream_events generator
    cIdx,           \* per consumer: current_index
    cWait,          \* per consumer: the Event it awaits in wait()
    cGot,           \* history: events yielded to the consumer, this attachment
    cAll,           \* history: events yielded over all its attachments
    cFirst,         \* history: start_index of the consumer's first attachment
    cAttach,        \* history: what the stream held when the consumer attached
    \* ---- PersistentStreamer / PersistentEventSourceResponse ----
    streams,        \* PersistentStreamer.streams: stream id -> the StreamData
                    \* registered under it ("produced": the one process_stream
                    \* feeds, "fresh": one a response created for itself)
    cObj,           \* per consumer: the StreamData its response holds
    cResume,        \* history, per consumer: "first", or how its previous
                    \* response ended: "open" (disconnected before the stream
                    \* completed) or "completed"
    cLate,          \* history, per consumer: its response was constructed
                    \* after delete_stream had removed the stream id
    deleted,        \* history: delete_stream has removed the stream id
    \* ---- MCPManager ----
    mgrPc,          \* "none", "construct_failed", "constructed",
                    \* "initializing", "init_raised", "ready", "cleaning",
                    \* "cleanup_raised" or "closed"
    config_file,    \* the mcpServers map read from config_path, in file order
    mcp_config,     \* MCPManager.mcp_config.mcp_servers, in dict order
    clients,        \* MCPManager.clients: server names, in dict order
    disabled_clients, \* MCPManager.disabled_clients
    failed_clients, \* MCPManager.failed_clients: name -> (params, error)
    initialized,    \* MCPManager.initialized
    initPos,        \* initialize(): position of the for loop in clients
    attempts,       \* history: client.initialize() calls and their outcomes
    exit_stack,     \* per client: what its MCPClient.exit_stack holds
    cleanPos,       \* cleanup(): position of the for loop in clients
    cleanups,       \* history: client.cleanup() calls and their outcomes
    initStage,      \* initialize(): the awaits of the client.initialize() it
                    \* awaits that have returned
    cleanErr,       \* cleanup(): the exception aclose() carries to its end
    calls,          \* per caller of initialize(): its position in the loop
                    \* and in the client.initialize() it awaits
    \* ---- MCPAgent ----
    agPc,           \* "idle", "tools" (awaiting asyncio.gather) or "model"
                    \* (inside model.request_stream)
    history,        \* MCPAgent._last_conversation (None and [] are <<>>)
    last_response,  \* MCPAgent._last_response
    usage,          \* MCPAgent._usage.requests
    messages,       \* _request_stream: its local variable messages
    tasks,          \* the coroutines handed to asyncio.gather, in order
    lastError,      \* the exception the last operation ended with, or "none"
    op,             \* history: the operation in progress or last run
    xid,            \* history: number of operations started
    callLog,        \* history: the calls of mcp_manager.call_tool
    modelCalls,     \* history: number of calls of model.request_stream
    doneOrder,      \* history: task indices in the order they completed
    \* ---- tool definition names ----
    nmPc,           \* "none", "input", "named", "resolved" or "raised"
    nmServer,       \* the server name a tool definition is built for
    nmTool,         \* tool.name of the tool
    nmName,         \* ToolDefinition.name built by _get_tool_definitions
    nmResult,       \* what _dispatch_tool_definition_name returned for it
    \* ---- ConversationController ----
    table,          \* the conversations table: conversation_id -> row
    next_id,        \* the next conversation_id (uuid4: never used before)
    reqs,           \* per request: the chat / permit_call_tool call in flight
    resp            \* history: the last call of the controller and its answer

streamVars == <<max_size, events, completed, evGen, evSet, srcPc, produced,
                evictions, cPc, cIdx, cWait, cGot, cAll, cFirst, cAttach>>

streamerVars == <<streams, cObj, cResume, cLate, deleted>>

mgrVars == <<mgrPc, config_file, mcp_config, clients, disabled_clients,
             failed_clients, initialized, initPos, attempts, exit_stack,
             cleanPos, cleanups, calls, initStage, cleanErr>>

agentVars == <<agPc, history, last_response, usage, messages, tasks,
               lastError, op, xid, callLog, modelCalls, doneOrder>>

nameVars == <<nmPc, nmServer, nmTool, nmName, nmResult>>

ctlVars == <<table, next_id, reqs, resp>>

vars == <<streamVars, streamerVars, mgrVars, agentVars, nameVars, ctlVars>>

Last(s) == s[Len(s)]

(***************************************************************************)
(* StreamData                                                              *)
(***************************************************************************)
NoAttach == [len |-> 0, prod |-> 0, done |-> FALSE, start |-> 0]

StreamInit ==
    /\ max_size = 0
    /\ events = <<>>
    /\ completed = FALSE
    /\ evGen = 0
    /\ evSet = {}
    /\ srcPc = "none"
    /\ produced = <<>>
    /\ evictions = 0
    /\ cPc = [c \in Consumers |-> "none"]
    /\ cIdx = [c \in Consumers |-> 0]
    /\ cWait = [c \in Consumers |-> 0]
    /\ cGot = [c \in Consumers |-> <<>>]
    /\ cAll = [c \in Consumers |-> <<>>]
    /\ cFirst = [c \in Consumers |-> 0]
    /\ cAttach = [c \in Consumers |-> NoAttach]

\* StreamData.__init__(max_size), and process_stream started on the new stream
StreamData_init(ms) ==
    /\ srcPc = "none"
    /\ max_size' = ms
    /\ events' = <<>>
    /\ completed' = FALSE
    /\ srcPc' = "running"
    /\ UNCHANGED <<evGen, evSet, produced, evictions, cPc, cIdx, cWait, cGot,
                   cAll, cFirst, cAttach>>
    /\ UNCHANGED <<streamerVars, mgrVars, agentVars, nameVars, ctlVars>>

\* deque(maxlen=max_size).append: drops the oldest element when full
DequeAppend(dq, e, maxlen) ==
    IF Len(dq) >= maxlen THEN Append(Tail(dq), e) ELSE Append(dq, e)

\* StreamData.add_event: append, set the current Event, install a fresh one
add_event(e) ==
    /\ events' = DequeAppend(events, e, max_size)
    /\ evSet' = evSet \cup {evGen}
    /\ evGen' = evGen + 1
    /\ produced' = Append(produced, e)
    /\ evictions' = IF Len(events) >= max_size THEN evictions + 1 ELSE evictions

\* variant of mark_completed that forgets to set the Event
mark_completed_no_wake ==
    /\ completed' = TRUE
    /\ evSet' = evSet

\* StreamData.mark_completed: set the flag and the current Event
mark_completed ==
    /\ completed' = TRUE
    /\ evSet' = evSet \cup {evGen}

\* process_stream: the source iterator yields one more event
process_stream_event(e) ==
    /\ srcPc = "running"
    /\ Len(produced) < MaxEvents
    /\ add_event(e)
    /\ UNCHANGED <<streamerVars, mgrVars, agentVars, nameVars, ctlVars>>
    /\ UNCHANGED <<max_size, completed, srcPc, cPc, cIdx, cWait, cGot, cAll,
                   cFirst, cAttach>>

\* StreamData.add_event called by any holder of the StreamData (the object
\* create_stream and get_stream return), whatever process_stream has done:
\* the method does not look at completed
add_event_call(e) ==
    /\ srcPc # "none"
    /\ Len(produced) < MaxEvents
    /\ add_event(e)
    /\ UNCHANGED <<streamerVars, mgrVars, agentVars, nameVars, ctlVars>>
    /\ UNCHANGED <<max_size, completed, srcPc, cPc, cIdx, cWait, cGot, cAll,
                   cFirst, cAttach>>

\* process_stream: the source iterator is exhausted; finally: mark_completed
process_stream_exhausted ==
    /\ srcPc = "running"
    /\ mark_completed
    /\ srcPc' = "exhausted"
    /\ UNCHANGED <<streamerVars, mgrVars, agentVars, nameVars, ctlVars>>
    /\ UNCHANGED <<max_size, events, evGen, produced, evictions, cPc, cIdx,
                   cWait, cGot, cAll, cFirst, cAttach>>

\* process_stream: the source iterator raises; except: log, finally: mark_completed
process_stream_raise ==
    /\ srcPc = "running"
    /\ mark_completed
    /\ srcPc' = "raised"
    /\ UNCHANGED <<streamerVars, mgrVars, agentVars, nameVars, ctlVars>>
    /\ UNCHANGED <<max_size, events, evGen, produced, evictions, cPc, cIdx,
                   cWait, cGot, cAll, cFirst, cAttach>>

\* a consumer calls stream_events(start_index = k); nothing runs until the
\* generator is first advanced
Attach(c, k) ==
    /\ srcPc # "none"
    /\ cPc[c] = "none"
    /\ cPc' = [cPc EXCEPT ![c] = "run"]
    /\ cIdx' = [cIdx EXCEPT ![c] = k]
    /\ cGot' = [cGot EXCEPT ![c] = <<>>]
    /\ cAll' = [cAll EXCEPT ![c] = <<>>]
    /\ cFirst' = [cFirst EXCEPT ![c] = k]
    /\ cAttach' = [cAttach EXCEPT ![c] =
                     [len |-> Len(events), prod |-> Len(produced),
                      done |-> completed, start |-> k]]
    /\ UNCHANGED <<streamerVars, mgrVars, agentVars, nameVars, ctlVars>>
    /\ UNCHANGED <<max_size, events, completed, evGen, evSet, srcPc, produced,
                   evictions, cWait>>

\* the consumer goes away while its generator is suspended (at a yield or in
\* wait()); the generator is closed, StreamData is not touched
Detach(c) ==
    /\ cPc[c] \in {"run", "waiting"}
    /\ cPc' = [cPc EXCEPT ![c] = "closed"]
    /\ UNCHANGED <<streamerVars, mgrVars, agentVars, nameVars, ctlVars>>
    /\ UNCHANGED <<max_size, events, completed, evGen, evSet, srcPc, produced,
                   evictions, cIdx, cWait, cGot, cAll, cFirst, cAttach>>

\* the consumer comes back with start_index = the number of events it has seen
Reattach(c) ==
    /\ cPc[c] = "closed"
    /\ cPc' = [cPc EXCEPT ![c] = "run"]
    /\ cIdx' = [cIdx EXCEPT ![c] = cFirst[c] + Len(cAll[c])]
    /\ cGot' = [cGot EXCEPT ![c] = <<>>]
    /\ cAttach' = [cAttach EXCEPT ![c] =
                     [len |-> Len(events), prod |-> Len(produced),
                      done |-> completed,
                      start |-> cFirst[c] + Len(cAll[c])]]
    /\ UNCHANGED <<streamerVars, mgrVars, agentVars, nameVars, ctlVars>>
    /\ UNCHANGED <<max_size, events, completed, evGen, evSet, srcPc, produced,
                   evictions, cWait, cAll, cFirst>>

\* the StreamData a consumer reads.  A StreamData that a response created
\* for itself is fed by nothing: it stays empty and not completed, and its
\* Event (identity -1) is never set
StreamDataOf(c) ==
    IF cObj[c] = "fresh"
    THEN [events |-> <<>>, completed |-> FALSE, event_added |-> -1]
    ELSE [events |-> events, completed |-> completed, event_added |-> evGen]

\* variant of stream_events that yields the newest event (events[-1]) instead
\* of events[current_index]
stream_events_newest(c) ==
    LET sd == StreamDataOf(c) IN
    /\ \/ cPc[c] = "run"
       \/ cPc[c] = "waiting" /\ cWait[c] \in evSet
    /\ IF cIdx[c] < Len(sd.events)
       THEN /\ cGot' = [cGot EXCEPT ![c] = Append(@, sd.events[Len(sd.events)])]
            /\ cAll' = [cAll EXCEPT ![c] = Append(@, sd.events[Len(sd.events)])]
            /\ cIdx' = [cIdx EXCEPT ![c] = @ + 1]
            /\ cPc' = [cPc EXCEPT ![c] = "run"]
            /\ UNCHANGED cWait
       ELSE IF sd.completed
       THEN /\ cPc' = [cPc EXCEPT ![c] = "done"]
            /\ UNCHANGED <<cGot, cAll, cIdx, cWait>>
       ELSE /\ cPc' = [cPc EXCEPT ![c] = "waiting"]
            /\ cWait' = [cWait EXCEPT ![c] = sd.event_added]
            /\ UNCHANGED <<cGot, cAll, cIdx>>
    /\ UNCHANGED <<streamerVars, mgrVars, agentVars, nameVars, ctlVars>>
    /\ UNCHANGED <<max_size, events, completed, evGen, evSet, srcPc, produced,
                   evictions, cFirst, cAttach>>

\* StreamData.stream_events, from one suspension point to the next: the
\* generator is advanced (first __anext__, or after a yield), or the Event it
\* awaits has been set.  It yields events[current_index] and suspends, or
\* ends on a completed stream, or awaits the Event now in _event_added.
stream_events(c) ==
    LET sd == StreamDataOf(c) IN
    /\ \/ cPc[c] = "run"
       \/ cPc[c] = "waiting" /\ cWait[c] \in evSet
    /\ IF cIdx[c] < Len(sd.events)
       THEN /\ cGot' = [cGot EXCEPT ![c] = Append(@, sd.events[cIdx[c] + 1])]
            /\ cAll' = [cAll EXCEPT ![c] = Append(@, sd.events[cIdx[c] + 1])]
            /\ cIdx' = [cIdx EXCEPT ![c] = @ + 1]
            /\ cPc' = [cPc EXCEPT ![c] = "run"]
            /\ UNCHANGED cWait
       ELSE IF sd.completed
       THEN /\ cPc' = [cPc EXCEPT ![c] = "done"]
            /\ UNCHANGED <<cGot, cAll, cIdx, cWait>>
       ELSE /\ cPc' = [cPc EXCEPT ![c] = "waiting"]
            /\ cWait' = [cWait EXCEPT ![c] = sd.event_added]
            /\ UNCHANGED <<cGot, cAll, cIdx>>
    /\ UNCHANGED <<streamerVars, mgrVars, agentVars, nameVars, ctlVars>>
    /\ UNCHANGED <<max_size, events, completed, evGen, evSet, srcPc, produced,
                   evictions, cFirst, cAttach>>

(***************************************************************************)
(* PersistentStreamer and PersistentEventSourceResponse                    *)
(***************************************************************************)
\* the stream id the responses and the producer use
StreamId == "s1"

StreamerInit ==
    /\ streams = [id \in {} |-> "produced"]
    /\ cObj = [c \in Consumers |-> "none"]
    /\ cResume = [c \in Consumers |-> "first"]
    /\ cLate = [c \in Consumers |-> FALSE]
    /\ deleted = FALSE

\* PersistentStreamer.has_stream
has_stream(stream_id) == stream_id \in DOMAIN streams

\* StreamData.is_completed of the StreamData registered under stream_id
is_completed(stream_id) == streams[stream_id] = "produced" /\ completed

\* PersistentStreamer.create_stream, and process_stream started on the new
\* StreamData.  create_stream builds StreamData() with the default max_size
\* of 1000; ms is that capacity at the scale of MaxEvents (below or above the
\* number of events a source may produce)
create_stream(ms) ==
    /\ ~has_stream(StreamId)
    /\ srcPc = "none"
    /\ streams' = [id \in {StreamId} |-> "produced"]
    /\ max_size' = ms
    /\ events' = <<>>
    /\ completed' = FALSE
    /\ srcPc' = "running"
    /\ UNCHANGED <<evGen, evSet, produced, evictions, cPc, cIdx, cWait, cGot,
                   cAll, cFirst, cAttach>>
    /\ UNCHANGED <<cObj, cResume, cLate, deleted>>
    /\ UNCHANGED <<mgrVars, agentVars, nameVars, ctlVars>>

\* the finally clause of PersistentEventSourceResponse.__call__: the stream
\* registered under the id is deleted if it is completed
call_finally ==
    IF has_stream(StreamId) /\ is_completed(StreamId)
    THEN /\ streams' = [id \in {} |-> "produced"]
         /\ deleted' = TRUE
    ELSE UNCHANGED <<streams, deleted>>

\* PersistentEventSourceResponse.__init__(streamer, stream_id, start_index = k)
\* and the start of __call__: get_stream, or create_stream when get_stream
\* raises ValueError; the generator over stream_events(k) is created
PersistentEventSourceResponse_init(c, k) ==
    /\ cPc[c] \in {"none", "closed", "ended"}
    /\ IF has_stream(StreamId)
       THEN /\ cObj' = [cObj EXCEPT ![c] = streams[StreamId]]
            /\ UNCHANGED streams
       ELSE /\ streams' = [id \in {StreamId} |-> "fresh"]
            /\ cObj' = [cObj EXCEPT ![c] = "fresh"]
    /\ cLate' = [cLate EXCEPT ![c] = deleted /\ ~has_stream(StreamId)]
    /\ cResume' = [cResume EXCEPT ![c] = IF cPc[c] = "closed" THEN @ ELSE "first"]
    /\ cPc' = [cPc EXCEPT ![c] = "run"]
    /\ cIdx' = [cIdx EXCEPT ![c] = k]
    /\ cGot' = [cGot EXCEPT ![c] = <<>>]
    /\ cAll' = [cAll EXCEPT ![c] = <<>>]
    /\ cFirst' = [cFirst EXCEPT ![c] = k]
    /\ cAttach' = [cAttach EXCEPT ![c] =
                     IF has_stream(StreamId) /\ streams[StreamId] = "produced"
                     THEN [len |-> Len(events), prod |-> Len(produced),
                           done |-> completed, start |-> k]
                     ELSE [len |-> 0, prod |-> 0, done |-> FALSE, start |-> k]]
    /\ UNCHANGED <<max_size, events, completed, evGen, evSet, srcPc, produced,
                   evictions, cWait, deleted>>
    /\ UNCHANGED <<mgrVars, agentVars, nameVars, ctlVars>>

\* PersistentEventSourceResponse.__call__: the client disconnects while the
\* generator is suspended; the response is torn down and the finally clause
\* runs
response_disconnects(c) ==
    /\ cPc[c] \in {"run", "waiting"}
    /\ cPc' = [cPc EXCEPT ![c] = "closed"]
    /\ cResume' = [cResume EXCEPT ![c] =
                     IF StreamDataOf(c).completed THEN "completed" ELSE "open"]
    /\ call_finally
    /\ UNCHANGED <<max_size, events, completed, evGen, evSet, srcPc, produced,
                   evictions, cIdx, cWait, cGot, cAll, cFirst, cAttach>>
    /\ UNCHANGED <<cObj, cLate>>
    /\ UNCHANGED <<mgrVars, agentVars, nameVars, ctlVars>>

\* PersistentEventSourceResponse.__call__: the generator has ended, the
\* response returns and the finally clause runs
response_returns(c) ==
    /\ cPc[c] = "done"
    /\ cPc' = [cPc EXCEPT ![c] = "ended"]
    /\ call_finally
    /\ UNCHANGED <<max_size, events, completed, evGen, evSet, srcPc, produced,
                   evictions, cIdx, cWait, cGot, cAll, cFirst, cAttach>>
    /\ UNCHANGED <<cObj, cResume, cLate>>
    /\ UNCHANGED <<mgrVars, agentVars, nameVars, ctlVars>>

(***************************************************************************)
(* MCPManager                                                              *)
(***************************************************************************)
EmptyMap == [n \in {} |-> 0]

\* the elements of a sequence
Range(s) == {s[i] : i \in DOMAIN s}

\* sequence of the elements of s that satisfy Keep, in order
RECURSIVE SelectNames(_, _)
SelectNames(s, keep) ==
    IF s = <<>> THEN <<>>
    ELSE IF Head(s) \in keep THEN <<Head(s)>> \o SelectNames(Tail(s), keep)
    ELSE SelectNames(Tail(s), keep)

\* entries of a config file: name, enabled flag, transport parameters
ConfigEntries == [name : ServerNames, enabled : BOOLEAN, params : ParamKinds]

\* config files: up to MaxServers entries with distinct names
ConfigFiles ==
    UNION {{cf \in [1..n -> ConfigEntries] :
               \A i, j \in 1..n : i # j => cf[i].name # cf[j].name}
           : n \in 0..MaxServers}

Names(cf) == [i \in DOMAIN cf |-> cf[i].name]

\* client.server_params of the client built for server n
ParamsOf(cf, n) == cf[CHOOSE i \in DOMAIN cf : cf[i].name = n].params

\* the callers of initialize() on one MCPManager
CallIds == {"k1", "k2"}

\* a caller that has not called yet
NoCall ==
    [pc |-> "none", via |-> "none", over |-> <<>>, pos |-> 0, stage |-> 0]

MgrInit ==
    /\ mgrPc = "none"
    /\ config_file = <<>>
    /\ mcp_config = <<>>
    /\ clients = <<>>
    /\ disabled_clients = <<>>
    /\ failed_clients = EmptyMap
    /\ initialized = FALSE
    /\ initPos = 0
    /\ attempts = <<>>
    /\ exit_stack = EmptyMap
    /\ cleanPos = 0
    /\ cleanups = <<>>
    /\ initStage = 0
    /\ cleanErr = "none"
    /\ calls = [k \in CallIds |-> NoCall]

\* MCPManager.__init__, the loop over mcp_configs["mcpServers"].items():
\* an entry with enabled = false is deleted from the dict being iterated and
\* appended to disabled_clients; the dict iterator then finds the dict
\* changed in size and its next step raises RuntimeError
RECURSIVE DisableLoop(_, _, _)
DisableLoop(cf, i, dis) ==
    IF i > Len(cf) THEN [raised |-> FALSE, disabled |-> dis]
    ELSE IF cf[i].enabled THEN DisableLoop(cf, i + 1, dis)
    ELSE [raised |-> TRUE, disabled |-> Append(dis, cf[i].name)]

\* MCPManager.__init__(config_path)
MCPManager_init(cf) ==
    /\ mgrPc = "none"
    /\ config_file' = cf
    /\ LET r == DisableLoop(cf, 1, <<>>) IN
       /\ disabled_clients' = r.disabled
       /\ IF r.raised
          THEN /\ mgrPc' = "construct_failed"
               /\ UNCHANGED <<mcp_config, clients, failed_clients, initialized,
                              exit_stack>>
          ELSE /\ mgrPc' = "constructed"
               /\ mcp_config' = cf
               /\ clients' = Names(cf)
               /\ exit_stack' = [n \in Range(Names(cf)) |-> <<>>]
               /\ failed_clients' = EmptyMap
               /\ initialized' = FALSE
    /\ UNCHANGED <<initPos, attempts, cleanPos, cleanups, calls, initStage,
                   cleanErr>>
    /\ UNCHANGED <<streamVars, streamerVars, agentVars, nameVars, ctlVars>>

\* the outcomes of MCPClient.initialize(): for SSEServerParameters the
\* argument of the outer enter_async_context is the coroutine of the inner
\* call, which is no async context manager, so a TypeError is raised before
\* anything is opened; for StdioServerParameters the call returns, or one
\* of its awaits raises (ConnectError, TimeoutError)
InitializeOutcomes(params) ==
    IF params = "sse" THEN SseErrors ELSE {"ok"} \cup HandshakeErrors

\* MCPClient.initialize(): the contexts the call enters on the client's
\* exit stack, one per await, before it awaits session.initialize().  With
\* StdioServerParameters stdio_client is entered twice (once in the branch,
\* once after it) and then the ClientSession; an exception leaves what was
\* entered on the stack
client_initialize(params) ==
    IF params = "sse" THEN <<>>
    ELSE <<"stdio_client", "stdio_client", "ClientSession">>

\* variant of the end of initialize() that reports initialized only when no
\* client failed
InitializeReturnStrict(cl, fc) ==
    [clients |-> IF DOMAIN fc # {} THEN SelectNames(cl, Range(cl) \ DOMAIN fc)
                 ELSE cl,
     initialized |-> DOMAIN fc = {}]

\* initialize(), after the loop: failed clients leave self.clients and
\* initialized becomes true
InitializeReturn(cl, fc) ==
    [clients |-> IF DOMAIN fc # {} THEN SelectNames(cl, Range(cl) \ DOMAIN fc)
                 ELSE cl,
     initialized |-> TRUE]

\* MCPManager.initialize() is called: the loop starts the handshake of the
\* first client, or ends at once when there is no client
initialize ==
    /\ mgrPc = "constructed"
    /\ IF clients = <<>>
       THEN LET r == InitializeReturn(clients, failed_clients) IN
            /\ mgrPc' = "ready"
            /\ clients' = r.clients
            /\ initialized' = r.initialized
            /\ UNCHANGED initPos
       ELSE /\ mgrPc' = "initializing"
            /\ initPos' = 1
            /\ UNCHANGED <<clients, initialized>>
    /\ UNCHANGED <<config_file, mcp_config, disabled_clients, failed_clients,
                   attempts, exit_stack, cleanPos, cleanups, calls, initStage,
                   cleanErr>>
    /\ UNCHANGED <<streamVars, streamerVars, agentVars, nameVars, ctlVars>>

\* initialize(), inside the awaited client.initialize() of the stdio client
\* clients[initPos]: one of its first three awaits returns, the context it
\* entered (stdio_client, stdio_client again, ClientSession) is on the
\* client's exit stack, and the call awaits the next one or the handshake
client_initialize_enters ==
    /\ mgrPc = "initializing"
    /\ ParamsOf(mcp_config, clients[initPos]) = "stdio"
    /\ initStage < Len(client_initialize("stdio"))
    /\ LET n == clients[initPos] IN
       exit_stack' = [exit_stack EXCEPT
                         ![n] = Append(@, client_initialize("stdio")
                                              [initStage + 1])]
    /\ initStage' = initStage + 1
    /\ UNCHANGED <<mgrPc, config_file, mcp_config, clients, disabled_clients,
                   failed_clients, initialized, initPos, attempts, cleanPos,
                   cleanups, calls, cleanErr>>
    /\ UNCHANGED <<streamVars, streamerVars, agentVars, nameVars, ctlVars>>

\* variant of the loop body without the try/except: the exception of a
\* failed handshake leaves initialize()
client_initialize_settles_uncaught(outcome) ==
    /\ mgrPc = "initializing"
    /\ outcome \in InitializeOutcomes(ParamsOf(mcp_config, clients[initPos]))
    /\ outcome = "ok" => initStage = Len(client_initialize("stdio"))
    /\ LET n == clients[initPos] IN
       /\ attempts' = Append(attempts, [name |-> n, outcome |-> outcome])
       /\ initStage' = 0
       /\ IF outcome # "ok"
          THEN /\ mgrPc' = "init_raised"
               /\ UNCHANGED <<failed_clients, initPos, clients, initialized>>
          ELSE /\ UNCHANGED failed_clients
               /\ IF initPos < Len(clients)
                  THEN /\ initPos' = initPos + 1
                       /\ UNCHANGED <<mgrPc, clients, initialized>>
                  ELSE LET r == InitializeReturn(clients, failed_clients) IN
                       /\ mgrPc' = "ready"
                       /\ clients' = r.clients
                       /\ initialized' = r.initialized
                       /\ UNCHANGED initPos
    /\ UNCHANGED <<config_file, mcp_config, disabled_clients, exit_stack,
                   cleanPos, cleanups, calls, cleanErr>>
    /\ UNCHANGED <<streamVars, streamerVars, agentVars, nameVars, ctlVars>>

\* initialize(), one turn of the loop: the awaited client.initialize() of
\* clients[initPos] returns from its last await (outcome "ok") or raises an
\* Exception at the await it has reached, which is recorded with the
\* client's server_params; what the call entered stays on the client's exit
\* stack; the loop goes on to the next client, or, after the last one,
\* initialize() returns
client_initialize_settles(outcome) ==
    /\ mgrPc = "initializing"
    /\ outcome \in InitializeOutcomes(ParamsOf(mcp_config, clients[initPos]))
    /\ outcome = "ok" => initStage = Len(client_initialize("stdio"))
    /\ LET n == clients[initPos]
           fc == IF outcome = "ok" THEN failed_clients
                 ELSE [m \in DOMAIN failed_clients \cup {n} |->
                         IF m = n
                         THEN [params |-> ParamsOf(mcp_config, n),
                               error |-> outcome]
                         ELSE failed_clients[m]]
       IN
       /\ attempts' = Append(attempts, [name |-> n, outcome |-> outcome])
       /\ initStage' = 0
       /\ failed_clients' = fc
       /\ IF initPos < Len(clients)
          THEN /\ initPos' = initPos + 1
               /\ UNCHANGED <<mgrPc, clients, initialized>>
          ELSE LET r == InitializeReturn(clients, fc) IN
               /\ mgrPc' = "ready"
               /\ clients' = r.clients
               /\ initialized' = r.initialized
               /\ UNCHANGED initPos
    /\ UNCHANGED <<config_file, mcp_config, disabled_clients, exit_stack,
                   cleanPos, cleanups, calls, cleanErr>>
    /\ UNCHANGED <<streamVars, streamerVars, agentVars, nameVars, ctlVars>>

\* MCPManager.get_tools(): the servers whose catalog is reported, one per
\* usable client
get_tools_servers == Range(clients)

\* MCPManager.call_tool(server_name, ...): forwarded to the usable client of
\* that name, NotFound when there is none
call_tool_reaches(server_name) == server_name \in Range(clients)

\* the loop of cleanup() runs on from position pos up to its next
\* suspension: client.cleanup() is exit_stack.aclose(), which pops the
\* context entered last and awaits its exit (every client of self.clients
\* holds the contexts of its initialize()); past the last client cleanup()
\* returns
cleanup_loop(pos, cl) ==
    /\ cleanups' = cl
    /\ cleanErr' = "none"
    /\ IF pos <= Len(clients)
       THEN /\ mgrPc' = "cleaning"
            /\ cleanPos' = pos
            /\ exit_stack' = [exit_stack EXCEPT
                                 ![clients[pos]] = SubSeq(@, 1, Len(@) - 1)]
       ELSE /\ mgrPc' = "closed"
            /\ UNCHANGED <<cleanPos, exit_stack>>

\* MCPManager.cleanup() is called (by init_mcp_manager, when the application
\* shuts down): the loop over self.clients.values() awaits the cleanup of
\* the first client, which awaits the exit of the context it entered last,
\* or ends at once when there is no client
cleanup ==
    /\ mgrPc = "ready"
    /\ cleanup_loop(1, cleanups)
    /\ UNCHANGED <<config_file, mcp_config, clients, disabled_clients,
                   failed_clients, initialized, initPos, attempts, calls,
                   initStage>>
    /\ UNCHANGED <<streamVars, streamerVars, agentVars, nameVars, ctlVars>>

\* cleanup(), inside the awaited client.cleanup() of clients[cleanPos]: the
\* exit of a context returns or raises while the exit stack still holds
\* contexts; aclose() keeps the exception, pops the next context and awaits
\* its exit
client_cleanup_resumes(outcome) ==
    /\ mgrPc = "cleaning"
    /\ LET n == clients[cleanPos] IN
       /\ exit_stack[n] # <<>>
       /\ exit_stack' = [exit_stack EXCEPT ![n] = SubSeq(@, 1, Len(@) - 1)]
    /\ cleanErr' = IF outcome # "ok" THEN outcome ELSE cleanErr
    /\ UNCHANGED <<mgrPc, config_file, mcp_config, clients, disabled_clients,
                   failed_clients, initialized, initPos, attempts, cleanPos,
                   cleanups, calls, initStage>>
    /\ UNCHANGED <<streamVars, streamerVars, agentVars, nameVars, ctlVars>>

\* cleanup(), one turn of the loop: the exit of the last context of
\* clients[cleanPos] returns or raises; aclose() has unwound the whole stack
\* and the awaited client.cleanup() returns, or raises the exception an
\* exit raised, which leaves the loop and cleanup()
client_cleanup_settles(outcome) ==
    /\ mgrPc = "cleaning"
    /\ LET n == clients[cleanPos]
           e == IF outcome # "ok" THEN outcome ELSE cleanErr
       IN
       /\ exit_stack[n] = <<>>
       /\ IF e # "none"
          THEN /\ cleanups' = Append(cleanups, [name |-> n, outcome |-> e])
               /\ mgrPc' = "cleanup_raised"
               /\ cleanErr' = "none"
               /\ UNCHANGED <<cleanPos, exit_stack>>
          ELSE cleanup_loop(cleanPos + 1,
                            Append(cleanups, [name |-> n, outcome |-> "ok"]))
    /\ UNCHANGED <<config_file, mcp_config, clients, disabled_clients,
                   failed_clients, initialized, initPos, attempts, calls,
                   initStage>>
    /\ UNCHANGED <<streamVars, streamerVars, agentVars, nameVars, ctlVars>>

\* the turns of the loop of initialize() that end without a suspension:
\* client.initialize() of a client with SSEServerParameters raises its
\* TypeError at once, the error is recorded and the loop goes on
RECURSIVE SseTurns(_, _, _, _)
SseTurns(over, pos, att, fc) ==
    IF pos > Len(over) \/ ParamsOf(mcp_config, over[pos]) # "sse"
    THEN [pos |-> pos, attempts |-> att, failed |-> fc]
    ELSE SseTurns(over, pos + 1,
                  Append(att, [name |-> over[pos], outcome |-> "TypeError"]),
                  [m \in DOMAIN fc \cup {over[pos]} |->
                      IF m = over[pos]
                      THEN [params |-> "sse", error |-> "TypeError"]
                      ELSE fc[m]])

\* the loop of initialize() of caller k runs on from position pos, with the
\* attempts and failures recorded so far, up to its next suspension: the
\* first await of client.initialize() of a stdio client, or, past the last
\* client, the end of initialize()
initialize_loop(k, rec, pos, att, fc) ==
    LET t == SseTurns(rec.over, pos, att, fc) IN
    /\ attempts' = t.attempts
    /\ failed_clients' = t.failed
    /\ IF t.pos <= Len(rec.over)
       THEN /\ calls' = [calls EXCEPT ![k] =
                           [rec EXCEPT !.pc = "running", !.pos = t.pos,
                                       !.stage = 0]]
            /\ UNCHANGED <<clients, initialized>>
       ELSE LET r == InitializeReturn(clients, t.failed) IN
            /\ calls' = [calls EXCEPT ![k] =
                           [rec EXCEPT !.pc = "returned",
                                       !.pos = Len(rec.over), !.stage = 0]]
            /\ clients' = r.clients
            /\ initialized' = r.initialized

\* MCPManager.initialize() entered by caller k: the for loop over the
\* current clients dict runs to its first suspension
initialize_call(k, via) ==
    /\ initialize_loop(k, [pc |-> "running", via |-> via, over |-> clients,
                           pos |-> 0, stage |-> 0],
                       1, attempts, failed_clients)
    /\ UNCHANGED <<mgrPc, config_file, mcp_config, disabled_clients,
                   initPos, exit_stack, cleanPos, cleanups, initStage,
                   cleanErr>>
    /\ UNCHANGED <<streamVars, streamerVars, agentVars, nameVars, ctlVars>>

\* get_mcp_manager (the request dependency): the cached manager is
\* initialized when its flag is not set yet
get_mcp_manager(k) ==
    /\ mgrPc = "constructed"
    /\ calls[k].pc = "none"
    /\ IF ~initialized
       THEN initialize_call(k, "get_mcp_manager")
       ELSE /\ calls' = [calls EXCEPT ![k] = [pc |-> "returned",
                                              via |-> "get_mcp_manager",
                                              over |-> <<>>, pos |-> 0,
                                              stage |-> 0]]
            /\ UNCHANGED <<mgrPc, config_file, mcp_config, clients,
                           disabled_clients, failed_clients, initialized,
                           initPos, attempts, exit_stack, cleanPos, cleanups,
                           initStage, cleanErr>>
            /\ UNCHANGED <<streamVars, streamerVars, agentVars, nameVars,
                           ctlVars>>

\* init_mcp_manager (application startup, up to its yield): the cached
\* manager is initialized
init_mcp_manager(k) ==
    /\ mgrPc = "constructed"
    /\ calls[k].pc = "none"
    /\ initialize_call(k, "init_mcp_manager")

\* get_mcp_manager called ("for direct use") by a caller that wants an
\* agent to run the tool-call parts execute_tool_call_part, when
\* MCPManager(config_path) has raised: functools.cache keeps no result of a
\* call that raised, so the constructor runs again on the same file and
\* raises again; the caller's permit step ends with that RuntimeError
\* before an agent is built
get_mcp_manager_raises(execute_tool_call_part) ==
    /\ mgrPc = "construct_failed"
    /\ agPc = "idle"
    /\ xid < MaxExchanges
    /\ xid' = xid + 1
    /\ op' = [name |-> "permit", all |-> FALSE, ids |-> <<>>,
              parts |-> execute_tool_call_part, pending |-> {}]
    /\ lastError' = "RuntimeError"
    /\ UNCHANGED <<agPc, history, last_response, usage, messages, tasks,
                   callLog, modelCalls, doneOrder>>
    /\ UNCHANGED <<streamVars, streamerVars, mgrVars, nameVars, ctlVars>>

\* MCPClient.initialize() of a stdio client, awaited by caller k, resumes
\* from one of its first three awaits: the context it was entering
\* (stdio_client, stdio_client again, ClientSession) is on the client's
\* exit stack, and the call awaits the next one or the handshake
client_initialize_resumes(k) ==
    /\ calls[k].pc = "running"
    /\ calls[k].stage < Len(client_initialize("stdio"))
    /\ LET n == calls[k].over[calls[k].pos] IN
       exit_stack' = [exit_stack EXCEPT
                         ![n] = Append(@, client_initialize("stdio")
                                              [calls[k].stage + 1])]
    /\ calls' = [calls EXCEPT ![k].stage = @ + 1]
    /\ UNCHANGED <<mgrPc, config_file, mcp_config, clients, disabled_clients,
                   failed_clients, initialized, initPos, attempts, cleanPos,
                   cleanups, initStage, cleanErr>>
    /\ UNCHANGED <<streamVars, streamerVars, agentVars, nameVars, ctlVars>>

\* initialize() of caller k, the awaited client.initialize() of the stdio
\* client the loop is at returns from its last await or raises at the await
\* it has reached, what it entered staying on the client's exit stack; the
\* loop goes on over the dict it started with, or initialize() returns
initialize_call_settles(k, outcome) ==
    /\ calls[k].pc = "running"
    /\ outcome \in InitializeOutcomes("stdio")
    /\ outcome = "ok" => calls[k].stage = Len(client_initialize("stdio"))
    /\ LET n == calls[k].over[calls[k].pos]
           fc == IF outcome = "ok" THEN failed_clients
                 ELSE [m \in DOMAIN failed_clients \cup {n} |->
                         IF m = n
                         THEN [params |-> ParamsOf(mcp_config, n),
                               error |-> outcome]
                         ELSE failed_clients[m]]
       IN
       initialize_loop(k, calls[k], calls[k].pos + 1,
                       Append(attempts, [name |-> n, outcome |-> outcome]), fc)
    /\ UNCHANGED <<mgrPc, config_file, mcp_config, disabled_clients, initPos,
                   exit_stack, cleanPos, cleanups, initStage, cleanErr>>
    /\ UNCHANGED <<streamVars, streamerVars, agentVars, nameVars, ctlVars>>

(***************************************************************************)
(* MCPAgent                                                                *)
(***************************************************************************)
None == "None"

\* message parts (pydantic_ai.messages), all with the same fields
Part(kind, name, args, content, id) ==
    [part_kind |-> kind, tool_name |-> name, args |-> args,
     content |-> content, tool_call_id |-> id]

SystemPromptPart == Part("system-prompt", None, None, "system", None)
UserPromptPart(prompt) == Part("user-prompt", None, None, prompt, None)
TextPart == Part("text", None, None, "text", None)
ToolCallPart(name, args, id) == Part("tool-call", name, args, None, id)
ToolReturnPart(name, content, id) == Part("tool-return", name, None, content, id)

ModelRequest(parts) == [kind |-> "request", parts |-> parts]
ModelResponse(parts) == [kind |-> "response", parts |-> parts]
\* the value of _last_response before any response: None
NoResponse == [kind |-> "none", parts |-> <<>>]

\* tool names are sequences of characters; "-" is the separator
\* the model proposes the tool "list" of server "fs" and "get" of server "db"
CallA == ToolCallPart(<<"fs", "-", "list">>, "argsA", "A")
CallB == ToolCallPart(<<"db", "-", "get">>, "argsB", "B")
\* a tool-call part a caller hands in that names a server no config has
CallX == ToolCallPart(<<"web", "-", "get">>, "argsX", "X")

\* prompts of the user
Prompts == {"hello"}
\* the responses the model engine may produce, whatever it is sent
ModelResponses == {<<TextPart>>, <<TextPart, CallA, CallB>>}
\* the decisions a permit step may carry
IdLists == {<<>>, <<"A">>, <<"B">>, <<"A", "B">>}
PartLists == {<<>>, <<CallA>>, <<CallX>>}

\* MCPAgent.__init__: last_conversation is what the caller hands over (None
\* for a new conversation), _last_response is None, usage is fresh
MCPAgent_init(last_conversation) ==
    /\ agPc = "idle"
    /\ history = last_conversation
    /\ last_response = NoResponse
    /\ usage = 0
    /\ messages = <<>>
    /\ tasks = <<>>
    /\ lastError = "none"
    /\ op = [name |-> "none", all |-> FALSE, ids |-> <<>>, parts |-> <<>>,
             pending |-> {}]
    /\ xid = 0
    /\ callLog = <<>>
    /\ modelCalls = 0
    /\ doneOrder = <<>>

\* no agent has run yet
AgentInit == MCPAgent_init(<<>>)

\* MCPAgent._get_init_messages
get_init_messages == <<ModelRequest(<<SystemPromptPart>>)>>

\* the conversations an agent is built on: none, one whose last response
\* proposes the tool calls A and B, one that ends with a text answer, and
\* one that ends with a request
LastConversations ==
    LET asked == Append(get_init_messages, ModelRequest(<<UserPromptPart("hello")>>))
    IN {<<>>,
        Append(asked, ModelResponse(<<CallA, CallB>>)),
        Append(asked, ModelResponse(<<TextPart>>)),
        asked}

\* str.split(sep): the pieces between the occurrences of sep
RECURSIVE Split(_, _, _)
Split(str, sep, piece) ==
    IF str = <<>> THEN <<piece>>
    ELSE IF Head(str) = sep THEN <<piece>> \o Split(Tail(str), sep, <<>>)
    ELSE Split(Tail(str), sep, Append(piece, Head(str)))

\* MCPAgent._dispatch_tool_definition_name: unpacking the split into two
\* names raises ValueError unless there are exactly two pieces
dispatch_tool_definition_name(tool_definition_name) ==
    LET pieces == Split(tool_definition_name, "-", <<>>) IN
    IF Len(pieces) = 2
    THEN [ok |-> TRUE, server_name |-> pieces[1], tool_name |-> pieces[2]]
    ELSE [ok |-> FALSE, server_name |-> <<>>, tool_name |-> <<>>]

\* the tool-call parts of a message
ToolCallParts(message) ==
    SelectSeq(message.parts, LAMBDA q : q.part_kind = "tool-call")

\* the call ids of the tool-call parts of a message
PendingIds(message) ==
    IF message.kind = "response"
    THEN {q.tool_call_id : q \in Range(ToolCallParts(message))}
    ELSE {}

\* MCPAgent._execute_all_tool_calls: the coroutines it gathers
execute_all_tool_calls(message) ==
    IF message.kind # "response" THEN <<>> ELSE ToolCallParts(message)

\* variant of _execute_tool_calls that does not filter by execute_tool_call_ids
execute_tool_calls_unfiltered(message, execute_tool_call_ids, execute_tool_call_part) ==
    IF message.kind # "response" THEN <<>>
    ELSE IF execute_tool_call_ids # <<>>
    THEN execute_tool_call_part \o ToolCallParts(message)
    ELSE execute_tool_call_part

\* MCPAgent._execute_tool_calls: the coroutines it gathers
execute_tool_calls(message, execute_tool_call_ids, execute_tool_call_part) ==
    IF message.kind # "response" THEN <<>>
    ELSE IF execute_tool_call_ids # <<>>
    THEN execute_tool_call_part
         \o SelectSeq(message.parts,
                LAMBDA q : /\ q.part_kind = "tool-call"
                           /\ q.tool_call_id \in Range(execute_tool_call_ids))
    ELSE execute_tool_call_part

\* every coroutine of the last gather has returned or raised
TasksSettled == \A i \in DOMAIN tasks : tasks[i].st \in {"done", "raised"}

\* variant of _request_stream in which a list of ids restricts the calls
\* that are run even when execute_all_tool_calls is set
request_stream_ids_restrict(msgs, execute_all, execute_tool_call_ids, execute_tool_call_part) ==
    LET sel == IF execute_all /\ execute_tool_call_ids = <<>>
               THEN execute_all_tool_calls(Last(msgs))
               ELSE execute_tool_calls(Last(msgs), execute_tool_call_ids,
                                       execute_tool_call_part)
    IN
    /\ messages' = msgs
    /\ tasks' = [i \in DOMAIN sel |-> [part |-> sel[i], st |-> "new", ret |-> None]]
    /\ doneOrder' = <<>>
    /\ lastError' = "none"
    /\ IF sel = <<>>
       THEN /\ agPc' = "model"
            /\ modelCalls' = modelCalls + 1
       ELSE /\ agPc' = "tools"
            /\ UNCHANGED modelCalls
    /\ UNCHANGED <<history, last_response, usage, callLog>>

\* MCPAgent._request_stream, up to its first suspension: the selected tool
\* calls are handed to asyncio.gather, or, when there is none, the model
\* request is made at once
request_stream(msgs, execute_all, execute_tool_call_ids, execute_tool_call_part) ==
    LET sel == IF execute_all
               THEN execute_all_tool_calls(Last(msgs))
               ELSE execute_tool_calls(Last(msgs), execute_tool_call_ids,
                                       execute_tool_call_part)
    IN
    /\ messages' = msgs
    /\ tasks' = [i \in DOMAIN sel |-> [part |-> sel[i], st |-> "new", ret |-> None]]
    /\ doneOrder' = <<>>
    /\ lastError' = "none"
    /\ IF sel = <<>>
       THEN /\ agPc' = "model"
            /\ modelCalls' = modelCalls + 1
       ELSE /\ agPc' = "tools"
            /\ UNCHANGED modelCalls
    /\ UNCHANGED <<history, last_response, usage, callLog>>

\* variant of chat_stream without the check of the last turn
chat_stream_unguarded(prompt) ==
    /\ agPc = "idle"
    /\ TasksSettled
    /\ xid < MaxExchanges
    /\ xid' = xid + 1
    /\ LET previous_conversation ==
               IF history # <<>> THEN history ELSE get_init_messages
       IN
       /\ op' = [name |-> "chat", all |-> FALSE, ids |-> <<>>, parts |-> <<>>,
                 pending |-> PendingIds(Last(previous_conversation))]
       /\ request_stream(Append(previous_conversation,
                                ModelRequest(<<UserPromptPart(prompt)>>)),
                         FALSE, <<>>, <<>>)
    /\ UNCHANGED <<streamVars, streamerVars, mgrVars, nameVars, ctlVars>>

\* variant of chat_stream that runs the pending tool calls of the last
\* response by itself instead of refusing the prompt
chat_stream_autorun(prompt) ==
    /\ agPc = "idle"
    /\ TasksSettled
    /\ xid < MaxExchanges
    /\ xid' = xid + 1
    /\ LET previous_conversation ==
               IF history # <<>> THEN history ELSE get_init_messages
       IN
       /\ op' = [name |-> "chat", all |-> FALSE, ids |-> <<>>, parts |-> <<>>,
                 pending |-> PendingIds(Last(previous_conversation))]
       /\ IF Last(previous_conversation).kind = "response"
          THEN request_stream(previous_conversation, TRUE, <<>>, <<>>)
          ELSE request_stream(Append(previous_conversation,
                                     ModelRequest(<<UserPromptPart(prompt)>>)),
                              FALSE, <<>>, <<>>)
    /\ UNCHANGED <<streamVars, streamerVars, mgrVars, nameVars, ctlVars>>

\* MCPAgent.chat_stream(prompt)
chat_stream(prompt) ==
    /\ agPc = "idle"
    /\ TasksSettled
    /\ xid < MaxExchanges
    /\ xid' = xid + 1
    /\ LET previous_conversation ==
               IF history # <<>> THEN history ELSE get_init_messages
       IN
       /\ op' = [name |-> "chat", all |-> FALSE, ids |-> <<>>, parts |-> <<>>,
                 pending |-> PendingIds(Last(previous_conversation))]
       /\ IF Last(previous_conversation).kind = "response"
          THEN /\ lastError' = "NeedUserPromptError"
               /\ UNCHANGED <<agPc, history, last_response, usage, messages,
                              tasks, callLog, modelCalls, doneOrder>>
          ELSE request_stream(Append(previous_conversation,
                                     ModelRequest(<<UserPromptPart(prompt)>>)),
                              FALSE, <<>>, <<>>)
    /\ UNCHANGED <<streamVars, streamerVars, mgrVars, nameVars, ctlVars>>

\* MCPAgent.resume_stream: refuses unless the last turn is a request; then it
\* awaits the async generator _request_stream returns, which raises TypeError
\* before any of _request_stream has run
resume_stream ==
    /\ agPc = "idle"
    /\ TasksSettled
    /\ xid < MaxExchanges
    /\ xid' = xid + 1
    /\ op' = [name |-> "resume", all |-> FALSE, ids |-> <<>>, parts |-> <<>>,
              pending |-> IF history = <<>> THEN {} ELSE PendingIds(Last(history))]
    /\ lastError' = IF history = <<>> \/ Last(history).kind = "response"
                    THEN "AlreadyResponsedError"
                    ELSE "TypeError"
    /\ UNCHANGED <<agPc, history, last_response, usage, messages, tasks,
                   callLog, modelCalls, doneOrder>>
    /\ UNCHANGED <<streamVars, streamerVars, mgrVars, nameVars, ctlVars>>

\* MCPAgent.run_tool_stream(execute_all_tool_calls, execute_tool_call_ids,
\* execute_tool_call_part): the permit step
run_tool_stream(execute_all, execute_tool_call_ids, execute_tool_call_part) ==
    /\ agPc = "idle"
    /\ TasksSettled
    /\ xid < MaxExchanges
    /\ xid' = xid + 1
    /\ LET msgs == IF history # <<>> THEN history ELSE get_init_messages IN
       /\ op' = [name |-> "permit", all |-> execute_all,
                 ids |-> execute_tool_call_ids, parts |-> execute_tool_call_part,
                 pending |-> PendingIds(Last(msgs))]
       /\ request_stream(msgs, execute_all, execute_tool_call_ids,
                         execute_tool_call_part)
    /\ UNCHANGED <<streamVars, streamerVars, mgrVars, nameVars, ctlVars>>

\* MCPManager.call_tool as the spec gives it: the payload a tool returns for
\* a call, opaque to the agent; isError marks a tool-level failure
CallToolResult(server_name, tool_name, args, isError) ==
    [server |-> server_name, tool |-> tool_name, args |-> args,
     isError |-> isError]

\* variant of the start of a tool call in which the calls are awaited one
\* after the other: call i starts when the calls before it have settled each resolves its tool name and calls
execute_one_tool_call_part_calls_sequential(i) ==
    /\ i \in DOMAIN tasks
    /\ tasks[i].st = "new"
    /\ \A j \in 1..(i - 1) : tasks[j].st \in {"done", "raised"}
    /\ LET q == tasks[i].part
           d == dispatch_tool_definition_name(q.tool_name)
       IN
       IF ~d.ok
       THEN /\ tasks' = [tasks EXCEPT ![i].st = "raised", ![i].ret = "ValueError"]
            /\ UNCHANGED callLog
       ELSE /\ callLog' = Append(callLog,
                   [xid |-> xid, by |-> op.name, turn |-> Len(messages),
                    tool_call_id |-> q.tool_call_id,
                    tool_name |-> q.tool_name, server |-> d.server_name,
                    tool |-> d.tool_name, args |-> q.args,
                    forwarded |-> call_tool_reaches(d.server_name[1])])
            /\ IF call_tool_reaches(d.server_name[1])
               THEN tasks' = [tasks EXCEPT ![i].st = "called"]
               ELSE tasks' = [tasks EXCEPT ![i].st = "raised", ![i].ret = "NotFound"]
    /\ UNCHANGED <<agPc, history, last_response, usage, messages, lastError,
                   op, xid, modelCalls, doneOrder>>
    /\ UNCHANGED <<streamVars, streamerVars, mgrVars, nameVars, ctlVars>>

\* MCPAgent._execute_one_tool_call_part, up to its await: the coroutines of
\* a gather start in order; each resolves its tool name and calls
\* mcp_manager.call_tool, which forwards to a usable client or raises NotFound
execute_one_tool_call_part_calls(i) ==
    /\ i \in DOMAIN tasks
    /\ tasks[i].st = "new"
    /\ \A j \in 1..(i - 1) : tasks[j].st # "new"
    /\ LET q == tasks[i].part
           d == dispatch_tool_definition_name(q.tool_name)
       IN
       IF ~d.ok
       THEN /\ tasks' = [tasks EXCEPT ![i].st = "raised", ![i].ret = "ValueError"]
            /\ UNCHANGED callLog
       ELSE /\ callLog' = Append(callLog,
                   [xid |-> xid, by |-> op.name, turn |-> Len(messages),
                    tool_call_id |-> q.tool_call_id,
                    tool_name |-> q.tool_name, server |-> d.server_name,
                    tool |-> d.tool_name, args |-> q.args,
                    forwarded |-> call_tool_reaches(d.server_name[1])])
            /\ IF call_tool_reaches(d.server_name[1])
               THEN tasks' = [tasks EXCEPT ![i].st = "called"]
               ELSE tasks' = [tasks EXCEPT ![i].st = "raised", ![i].ret = "NotFound"]
    /\ UNCHANGED <<agPc, history, last_response, usage, messages, lastError,
                   op, xid, modelCalls, doneOrder>>
    /\ UNCHANGED <<streamVars, streamerVars, mgrVars, nameVars, ctlVars>>

\* variant of the completion of a tool call in which the results are paired
\* with the tool-call parts in the order the calls complete
execute_one_tool_call_part_returns_in_completion_order(i, isError) ==
    /\ i \in DOMAIN tasks
    /\ tasks[i].st = "called"
    /\ \A j \in DOMAIN tasks : tasks[j].st # "new"
    /\ LET q == tasks[i].part
           d == dispatch_tool_definition_name(q.tool_name)
           k == Len(doneOrder) + 1
           slot == SelectSeq([j \in DOMAIN tasks |-> j],
                               LAMBDA j : tasks[j].st \in {"called", "done"})[k]
           r == tasks[slot].part
       IN
       tasks' = [tasks EXCEPT ![i].st = "done",
                    ![i].ret = ToolReturnPart(r.tool_name,
                                  CallToolResult(d.server_name, d.tool_name,
                                                 q.args, isError),
                                  r.tool_call_id)]
    /\ doneOrder' = Append(doneOrder, i)
    /\ UNCHANGED <<agPc, history, last_response, usage, messages, lastError,
                   op, xid, callLog, modelCalls>>
    /\ UNCHANGED <<streamVars, streamerVars, mgrVars, nameVars, ctlVars>>

\* variant of the completion of a tool call that raises when the tool
\* reports a failure (isError) instead of returning the result
execute_one_tool_call_part_returns_raising(i, isError) ==
    /\ i \in DOMAIN tasks
    /\ tasks[i].st = "called"
    /\ \A j \in DOMAIN tasks : tasks[j].st # "new"
    /\ LET q == tasks[i].part
           d == dispatch_tool_definition_name(q.tool_name)
       IN
       tasks' = IF isError
                THEN [tasks EXCEPT ![i].st = "raised", ![i].ret = "ToolError"]
                ELSE [tasks EXCEPT ![i].st = "done",
                         ![i].ret = ToolReturnPart(q.tool_name,
                                       CallToolResult(d.server_name, d.tool_name,
                                                      q.args, isError),
                                       q.tool_call_id)]
    /\ doneOrder' = Append(doneOrder, i)
    /\ UNCHANGED <<agPc, history, last_response, usage, messages, lastError,
                   op, xid, callLog, modelCalls>>
    /\ UNCHANGED <<streamVars, streamerVars, mgrVars, nameVars, ctlVars>>

\* MCPAgent._execute_one_tool_call_part, after its await: the tool server
\* answers the call of coroutine i (in any order among the calls in flight)
\* and the coroutine wraps the result in a ToolReturnPart
execute_one_tool_call_part_returns(i, isError) ==
    /\ i \in DOMAIN tasks
    /\ tasks[i].st = "called"
    /\ \A j \in DOMAIN tasks : tasks[j].st # "new"
    /\ LET q == tasks[i].part
           d == dispatch_tool_definition_name(q.tool_name)
       IN
       tasks' = [tasks EXCEPT ![i].st = "done",
                    ![i].ret = ToolReturnPart(q.tool_name,
                                  CallToolResult(d.server_name, d.tool_name,
                                                 q.args, isError),
                                  q.tool_call_id)]
    /\ doneOrder' = Append(doneOrder, i)
    /\ UNCHANGED <<agPc, history, last_response, usage, messages, lastError,
                   op, xid, callLog, modelCalls>>
    /\ UNCHANGED <<streamVars, streamerVars, mgrVars, nameVars, ctlVars>>

\* asyncio.gather returns the results in the order of its arguments;
\* _request_stream appends them as one request turn and requests the model
gather_returns ==
    /\ agPc = "tools"
    /\ \A i \in DOMAIN tasks : tasks[i].st = "done"
    /\ LET tool_return_parts == [i \in DOMAIN tasks |-> tasks[i].ret] IN
       messages' = IF tool_return_parts # <<>>
                   THEN Append(messages, ModelRequest(tool_return_parts))
                   ELSE messages
    /\ agPc' = "model"
    /\ modelCalls' = modelCalls + 1
    /\ UNCHANGED <<history, last_response, usage, tasks, lastError, op, xid,
                   callLog, doneOrder>>
    /\ UNCHANGED <<streamVars, streamerVars, mgrVars, nameVars, ctlVars>>

\* asyncio.gather raises the first exception of its coroutines (the others
\* are not cancelled); it leaves _request_stream and the operation
gather_raises ==
    /\ agPc = "tools"
    /\ \A j \in DOMAIN tasks : tasks[j].st # "new"
    /\ \E i \in DOMAIN tasks :
          /\ tasks[i].st = "raised"
          /\ \A j \in 1..(i - 1) : tasks[j].st # "raised"
          /\ lastError' = tasks[i].ret
    /\ agPc' = "idle"
    /\ UNCHANGED <<history, last_response, usage, messages, tasks, op, xid,
                   callLog, modelCalls, doneOrder>>
    /\ UNCHANGED <<streamVars, streamerVars, mgrVars, nameVars, ctlVars>>

\* variant of the end of the model stream that leaves the request counter
\* of usage as it was
model_stream_ends_requests_kept(parts) ==
    /\ agPc = "model"
    /\ last_response' = ModelResponse(parts)
    /\ history' = Append(messages, ModelResponse(parts))
    /\ usage' = usage
    /\ agPc' = "idle"
    /\ UNCHANGED <<messages, tasks, lastError, op, xid, callLog, modelCalls,
                   doneOrder>>
    /\ UNCHANGED <<streamVars, streamerVars, mgrVars, nameVars, ctlVars>>

\* _request_stream, the model stream read to its end: response.get() becomes
\* the last response and the last turn, usage counts one more request
model_stream_ends(parts) ==
    /\ agPc = "model"
    /\ last_response' = ModelResponse(parts)
    /\ history' = Append(messages, ModelResponse(parts))
    /\ usage' = usage + 1
    /\ agPc' = "idle"
    /\ UNCHANGED <<messages, tasks, lastError, op, xid, callLog, modelCalls,
                   doneOrder>>
    /\ UNCHANGED <<streamVars, streamerVars, mgrVars, nameVars, ctlVars>>

\* _request_stream, the model stream raises: the exception leaves the
\* operation before the agent is updated
model_stream_raises ==
    /\ agPc = "model"
    /\ agPc' = "idle"
    /\ lastError' = "ModelError"
    /\ UNCHANGED <<history, last_response, usage, messages, tasks, op, xid,
                   callLog, modelCalls, doneOrder>>
    /\ UNCHANGED <<streamVars, streamerVars, mgrVars, nameVars, ctlVars>>

\* variant of the abandoned stream in which the request is counted in usage
\* although the stream was not read to its end
request_stream_abandoned_counted ==
    /\ agPc = "model"
    /\ agPc' = "idle"
    /\ lastError' = "GeneratorExit"
    /\ usage' = usage + 1
    /\ UNCHANGED <<history, last_response, messages, tasks, op, xid, callLog,
                   modelCalls, doneOrder>>
    /\ UNCHANGED <<streamVars, streamerVars, mgrVars, nameVars, ctlVars>>

\* _request_stream, the consumer stops iterating: the generator is closed
\* at its yield inside the model stream, GeneratorExit leaves the async
\* with block and the lines after the loop are not run
request_stream_abandoned ==
    /\ agPc = "model"
    /\ agPc' = "idle"
    /\ lastError' = "GeneratorExit"
    /\ UNCHANGED <<history, last_response, usage, messages, tasks, op, xid,
                   callLog, modelCalls, doneOrder>>
    /\ UNCHANGED <<streamVars, streamerVars, mgrVars, nameVars, ctlVars>>

AgentNext ==
    \/ \E prompt \in Prompts : chat_stream(prompt)
    \/ \E a \in BOOLEAN, ids \in IdLists, ps \in PartLists :
          run_tool_stream(a, ids, ps)
    \/ resume_stream
    \/ \E i \in 1..3 : execute_one_tool_call_part_calls(i)
    \/ \E i \in 1..3, e \in BOOLEAN : execute_one_tool_call_part_returns(i, e)
    \/ gather_returns
    \/ gather_raises
    \/ \E parts \in ModelResponses : model_stream_ends(parts)
    \/ model_stream_raises

(***************************************************************************)
(* ConversationController and the conversations table                      *)
(***************************************************************************)
\* the users that call the controller
Users == {"u1", "u2"}
\* the requests (calls of the controller) that may be in flight
Requests == {"r1", "r2"}
\* a conversation_id no conversation was ever given ("not-exists")
NotExists == 0

\* the columns of the Conversation model
ConversationColumns ==
    {"id_", "user_id", "conversation_id", "messages", "created_at",
     "updated_at"}

\* the fields of PermitCallToolRequest (with those of RedactableCompletion)
PermitCallToolRequestFields ==
    {"llm_config", "llm_model_settings", "redacted_messages",
     "execute_all_tool_calls", "execute_tool_call_ids",
     "execute_tool_call_part"}

\* the decisions a PermitCallToolRequest may carry: execute all, execute
\* the call of id A, execute none
Decisions ==
    {[execute_all |-> TRUE, ids |-> <<>>],
     [execute_all |-> FALSE, ids |-> <<"A">>],
     [execute_all |-> FALSE, ids |-> <<>>]}

\* params.redacted_messages: absent, or a conversation whose last turn
\* proposes the tool calls A and B
RedactedMessages ==
    {<<>>,
     <<ModelRequest(<<SystemPromptPart>>),
       ModelRequest(<<UserPromptPart("hello")>>),
       ModelResponse(<<CallA, CallB>>)>>}

\* a request slot in which no call is in flight
IdleRequest ==
    [pc |-> "idle", kind |-> "none", id |-> NotExists, overlap |-> FALSE,
     user |-> "none"]

\* a call of the controller and its answer: status is "ok" for a normal
\* return, the status code of the HTTPException raised, or the name of
\* another exception
Response(call, user, id, status) ==
    [op |-> call, user |-> user, id |-> id, status |-> status, datas |-> <<>>,
     overlap |-> FALSE, execute_all |-> FALSE, ids |-> <<>>,
     redacted_messages |-> <<>>, dispatched |-> {}]

CtlInit ==
    /\ table = [i \in {} |-> [user_id |-> "u1", messages |-> <<>>]]
    /\ next_id = 1
    /\ reqs = [r \in Requests |-> IdleRequest]
    /\ resp = Response("none", "none", NotExists, "none")

\* the sequence s in reverse order
Reverse(s) == [i \in 1..Len(s) |-> s[Len(s) + 1 - i]]

\* SELECT ... WHERE user_id = user ORDER BY created_at: the ids up to n of
\* the user's rows, oldest first
RECURSIVE SelectByUser(_, _)
SelectByUser(user, n) ==
    IF n = 0 THEN <<>>
    ELSE IF n \in DOMAIN table /\ table[n].user_id = user
    THEN Append(SelectByUser(user, n - 1), n)
    ELSE SelectByUser(user, n - 1)

\* the create_conversation calls that have not committed their row yet
CreatesPending ==
    {r \in Requests : reqs[r].kind = "create" /\ reqs[r].pc = "commit"}

\* ConversationController.create_conversation is called: the Conversation
\* of the user is added to the session and the call awaits commit()
create_conversation(r, user) ==
    /\ reqs[r].pc = "idle"
    /\ next_id + Cardinality(CreatesPending) <= MaxConversations
    /\ reqs' = [reqs EXCEPT ![r] =
                  [pc |-> "commit", kind |-> "create", id |-> NotExists,
                   overlap |-> FALSE, user |-> user]]
    /\ UNCHANGED <<table, next_id, resp>>
    /\ UNCHANGED <<streamVars, streamerVars, mgrVars, agentVars, nameVars>>

\* create_conversation, commit() returns: the row with the user's id, a new
\* conversation_id and no messages is in the table; the call awaits
\* refresh(c)
create_commit_returns(r) ==
    /\ reqs[r].pc = "commit"
    /\ reqs[r].kind = "create"
    /\ table' = [i \in DOMAIN table \cup {next_id} |->
                   IF i = next_id
                   THEN [user_id |-> reqs[r].user, messages |-> <<>>]
                   ELSE table[i]]
    /\ next_id' = next_id + 1
    /\ reqs' = [reqs EXCEPT ![r].pc = "refresh", ![r].id = next_id]
    /\ UNCHANGED resp
    /\ UNCHANGED <<streamVars, streamerVars, mgrVars, agentVars, nameVars>>

\* create_conversation, refresh(c) returns and the call answers with the
\* conversation_id of its row, or refresh raises InvalidRequestError
\* because the row is no longer in the table
create_refresh_returns(r) ==
    /\ reqs[r].pc = "refresh"
    /\ reqs[r].kind = "create"
    /\ resp' = Response("create", reqs[r].user, reqs[r].id,
                        IF reqs[r].id \in DOMAIN table THEN "ok"
                        ELSE "InvalidRequestError")
    /\ reqs' = [reqs EXCEPT ![r] = IdleRequest]
    /\ UNCHANGED <<table, next_id>>
    /\ UNCHANGED <<streamVars, streamerVars, mgrVars, agentVars, nameVars>>

\* ConversationController.get_conversations(user, limit, offset, order_by,
\* order) with limit and offset covering every row: 400 for an unknown
\* order; building the ConversionInfo of a row reads c.title, which the
\* Conversation model does not have
get_conversations(user, order) ==
    /\ LET asc == SelectByUser(user, next_id - 1)
           rows == IF order = "asc" THEN asc ELSE Reverse(asc)
       IN
       resp' = IF order \notin {"asc", "desc"}
               THEN Response("list", user, NotExists, "400")
               ELSE IF rows # <<>> /\ "title" \notin ConversationColumns
               THEN Response("list", user, NotExists, "AttributeError")
               ELSE [Response("list", user, NotExists, "ok")
                        EXCEPT !.datas = rows]
    /\ UNCHANGED <<table, next_id, reqs>>
    /\ UNCHANGED <<streamVars, streamerVars, mgrVars, agentVars, nameVars>>

\* ConversationController.get_conversation_info: 404 when no row has the
\* id, 403 when the row is another user's; building the ConversionInfo
\* reads conversation.title, which the Conversation model does not have
get_conversation_info(user, conversation_id) ==
    /\ resp' = IF conversation_id \notin DOMAIN table
               THEN Response("info", user, conversation_id, "404")
               ELSE IF table[conversation_id].user_id # user
               THEN Response("info", user, conversation_id, "403")
               ELSE IF "title" \notin ConversationColumns
               THEN Response("info", user, conversation_id, "AttributeError")
               ELSE [Response("info", user, conversation_id, "ok")
                        EXCEPT !.datas = <<conversation_id>>]
    /\ UNCHANGED <<table, next_id, reqs>>
    /\ UNCHANGED <<streamVars, streamerVars, mgrVars, agentVars, nameVars>>

\* ConversationController.delete_conversation is called and awaits the
\* SELECT of the conversation
delete_conversation(r, user, conversation_id) ==
    /\ reqs[r].pc = "idle"
    /\ reqs' = [reqs EXCEPT ![r] =
                  [pc |-> "select", kind |-> "delete", id |-> conversation_id,
                   overlap |-> FALSE, user |-> user]]
    /\ UNCHANGED <<table, next_id, resp>>
    /\ UNCHANGED <<streamVars, streamerVars, mgrVars, agentVars, nameVars>>

\* variant of the checks of delete_conversation without the check of the
\* owner
delete_select_returns_any_user(r) ==
    /\ reqs[r].pc = "select"
    /\ reqs[r].kind = "delete"
    /\ IF reqs[r].id \notin DOMAIN table
       THEN /\ resp' = Response("delete", reqs[r].user, reqs[r].id, "404")
            /\ reqs' = [reqs EXCEPT ![r] = IdleRequest]
       ELSE /\ reqs' = [reqs EXCEPT ![r].pc = "delete"]
            /\ UNCHANGED resp
    /\ UNCHANGED <<table, next_id>>
    /\ UNCHANGED <<streamVars, streamerVars, mgrVars, agentVars, nameVars>>

\* delete_conversation, the SELECT returns: 404 when no row has the id, 403
\* when the row is another user's, else the call awaits the DELETE
delete_select_returns(r) ==
    /\ reqs[r].pc = "select"
    /\ reqs[r].kind = "delete"
    /\ IF reqs[r].id \notin DOMAIN table
       THEN /\ resp' = Response("delete", reqs[r].user, reqs[r].id, "404")
            /\ reqs' = [reqs EXCEPT ![r] = IdleRequest]
       ELSE IF table[reqs[r].id].user_id # reqs[r].user
       THEN /\ resp' = Response("delete", reqs[r].user, reqs[r].id, "403")
            /\ reqs' = [reqs EXCEPT ![r] = IdleRequest]
       ELSE /\ reqs' = [reqs EXCEPT ![r].pc = "delete"]
            /\ UNCHANGED resp
    /\ UNCHANGED <<table, next_id>>
    /\ UNCHANGED <<streamVars, streamerVars, mgrVars, agentVars, nameVars>>

\* delete_conversation, the DELETE returns: it ran in the transaction of
\* the call's own session, so the stored table, which the SELECTs of the
\* other calls read, still holds the row; a DELETE that matches no row
\* raises nothing; the call awaits commit()
delete_execute_returns(r) ==
    /\ reqs[r].pc = "delete"
    /\ reqs[r].kind = "delete"
    /\ reqs' = [reqs EXCEPT ![r].pc = "commit"]
    /\ UNCHANGED <<table, next_id, resp>>
    /\ UNCHANGED <<streamVars, streamerVars, mgrVars, agentVars, nameVars>>

\* delete_conversation, commit() returns: the DELETE is committed, the row
\* of the id, if one is still stored, leaves the table, and the call
\* returns None
delete_commit_returns(r) ==
    /\ reqs[r].pc = "commit"
    /\ reqs[r].kind = "delete"
    /\ table' = [i \in DOMAIN table \ {reqs[r].id} |-> table[i]]
    /\ resp' = Response("delete", reqs[r].user, reqs[r].id, "ok")
    /\ reqs' = [reqs EXCEPT ![r] = IdleRequest]
    /\ UNCHANGED next_id
    /\ UNCHANGED <<streamVars, streamerVars, mgrVars, agentVars, nameVars>>

\* a chat or permit_call_tool call on the conversation is awaiting its SELECT
InFlight(conversation_id) ==
    \E r \in Requests :
        /\ reqs[r].kind \in {"chat", "permit_call_tool"}
        /\ reqs[r].pc = "select"
        /\ reqs[r].id = conversation_id

\* ConversationController.chat is called and awaits the SELECT of the
\* conversation; nothing looks at the calls already in flight
chat(r, conversation_id) ==
    /\ reqs[r].pc = "idle"
    /\ reqs' = [reqs EXCEPT ![r] =
                  [pc |-> "select", kind |-> "chat", id |-> conversation_id,
                   overlap |-> InFlight(conversation_id), user |-> "none"]]
    /\ UNCHANGED <<table, next_id, resp>>
    /\ UNCHANGED <<streamVars, streamerVars, mgrVars, agentVars, nameVars>>

\* ConversationController.permit_call_tool is called and awaits the SELECT
\* of the conversation; nothing looks at the calls already in flight
permit_call_tool(r, conversation_id) ==
    /\ reqs[r].pc = "idle"
    /\ reqs' = [reqs EXCEPT ![r] =
                  [pc |-> "select", kind |-> "permit_call_tool",
                   id |-> conversation_id,
                   overlap |-> InFlight(conversation_id), user |-> "none"]]
    /\ UNCHANGED <<table, next_id, resp>>
    /\ UNCHANGED <<streamVars, streamerVars, mgrVars, agentVars, nameVars>>

\* chat and permit_call_tool from the result of the SELECT to the MCPAgent
\* constructor call: 404 when no row has the id, 403 when the row is another
\* user's, 501 when get_model finds no model; the argument
\* usage=conversation.usage reads an attribute the Conversation model does
\* not have
BuildAgentStatus(user, conversation_id, has_model) ==
    IF conversation_id \notin DOMAIN table THEN "404"
    ELSE IF table[conversation_id].user_id # user THEN "403"
    ELSE IF ~has_model THEN "501"
    ELSE IF "usage" \notin ConversationColumns THEN "AttributeError"
    ELSE "ok"

\* ConversationController.chat, after the SELECT has returned, for the
\* user and the params of the call.  The handler ends in the exception
\* before agent.chat_stream and the UPDATE of the row
chat_select_returns(r, user, has_model, redacted_messages) ==
    /\ reqs[r].pc = "select"
    /\ reqs[r].kind = "chat"
    /\ resp' = [Response("chat", user, reqs[r].id,
                         BuildAgentStatus(user, reqs[r].id, has_model))
                  EXCEPT !.overlap = reqs[r].overlap,
                         !.redacted_messages = redacted_messages]
    /\ reqs' = [reqs EXCEPT ![r] = IdleRequest]
    /\ UNCHANGED <<table, next_id>>
    /\ UNCHANGED <<streamVars, streamerVars, mgrVars, agentVars, nameVars>>

\* ConversationController.permit_call_tool, after the SELECT has returned,
\* for the user and the params of the call.  The handler ends in the
\* exception before agent.run_tool_stream and the UPDATE of the row; the
\* call it would make, run_tool_stream(params.prompt), reads a field
\* PermitCallToolRequest does not have and passes none of the decision
\* fields, so no tool call is dispatched
permit_select_returns(r, user, has_model, redacted_messages, decision) ==
    /\ reqs[r].pc = "select"
    /\ reqs[r].kind = "permit_call_tool"
    /\ LET built == BuildAgentStatus(user, reqs[r].id, has_model)
           status == IF built = "ok" /\ "prompt" \notin PermitCallToolRequestFields
                     THEN "AttributeError" ELSE built
       IN
       resp' = [Response("permit_call_tool", user, reqs[r].id, status)
                  EXCEPT !.overlap = reqs[r].overlap,
                         !.redacted_messages = redacted_messages,
                         !.execute_all = decision.execute_all,
                         !.ids = decision.ids,
                         !.dispatched = {}]
    /\ reqs' = [reqs EXCEPT ![r] = IdleRequest]
    /\ UNCHANGED <<table, next_id>>
    /\ UNCHANGED <<streamVars, streamerVars, mgrVars, agentVars, nameVars>>

\* the steps of create_conversation calls
CreateNext ==
    \/ \E r \in Requests, u \in Users : create_conversation(r, u)
    \/ \E r \in Requests : create_commit_returns(r)
    \/ \E r \in Requests : create_refresh_returns(r)

\* the steps of delete_conversation calls
DeleteNext ==
    \/ \E r \in Requests, u \in Users, id \in 0..MaxConversations :
          delete_conversation(r, u, id)
    \/ \E r \in Requests : delete_select_returns(r)
    \/ \E r \in Requests : delete_execute_returns(r)
    \/ \E r \in Requests : delete_commit_returns(r)

\* the conversation API: create, list, info and delete
ConversationsNext ==
    \/ CreateNext
    \/ \E u \in Users, o \in {"asc", "desc", "up"} : get_conversations(u, o)
    \/ \E u \in Users, id \in 0..MaxConversations : get_conversation_info(u, id)
    \/ DeleteNext

\* conversations are created and chat / permit_call_tool calls are made on
\* them, two calls at a time
ExchangesNext ==
    \/ CreateNext
    \/ \E r \in Requests, id \in 0..MaxConversations : chat(r, id)
    \/ \E r \in Requests, id \in 0..MaxConversations : permit_call_tool(r, id)
    \/ \E r \in Requests, u \in Users, m \in BOOLEAN, rm \in RedactedMessages :
          chat_select_returns(r, u, m, rm)
    \/ \E r \in Requests, u \in Users, m \in BOOLEAN, rm \in RedactedMessages,
          d \in Decisions :
          permit_select_returns(r, u, m, rm, d)

(***************************************************************************)
(* Tool definition names                                                   *)
(***************************************************************************)
\* the characters of a tool name: a letter, and the separator
NameChars == {"x", "-"}

\* the names a tool may have: 1 to MaxNameLen characters
ToolNames ==
    UNION {[1..n -> NameChars] : n \in 1..MaxNameLen}

\* the names of tool servers, none of which contains the separator
PlainServerNames == {<<n>> : n \in ServerNames}

\* no tool definition name is being built
NamesInit ==
    /\ nmPc = "none"
    /\ nmServer = <<>>
    /\ nmTool = <<>>
    /\ nmName = <<>>
    /\ nmResult = [ok |-> FALSE, server_name |-> <<>>, tool_name |-> <<>>]

\* MCPAgent._get_tool_definitions: name = f"{server_name}-{tool.name}"
get_tool_definition_name(server_name, tool_name) ==
    server_name \o <<"-">> \o tool_name

\* _map_tools builds the ToolDefinition of the tool of the server
map_tools_names ==
    /\ nmPc = "input"
    /\ nmName' = get_tool_definition_name(nmServer, nmTool)
    /\ nmPc' = "named"
    /\ UNCHANGED <<nmServer, nmTool, nmResult>>
    /\ UNCHANGED <<streamVars, streamerVars, mgrVars, agentVars, ctlVars>>

\* the model proposes the tool under its definition name and
\* _execute_one_tool_call_part resolves it
resolve_tool_name ==
    /\ nmPc = "named"
    /\ nmResult' = dispatch_tool_definition_name(nmName)
    /\ nmPc' = IF dispatch_tool_definition_name(nmName).ok
               THEN "resolved" ELSE "raised"
    /\ UNCHANGED <<nmServer, nmTool, nmName>>
    /\ UNCHANGED <<streamVars, streamerVars, mgrVars, agentVars, ctlVars>>

NamesNext ==
    \/ map_tools_names
    \/ resolve_tool_name

\* a tool of any name on a server of any (separator-free) name
InitNames ==
    /\ StreamInit
    /\ StreamerInit
    /\ MgrInit
    /\ AgentInit
    /\ CtlInit
    /\ nmPc = "input"
    /\ nmServer \in PlainServerNames
    /\ nmTool \in ToolNames
    /\ nmName = <<>>
    /\ nmResult = [ok |-> FALSE, server_name |-> <<>>, tool_name |-> <<>>]

SpecNames == InitNames /\ [][NamesNext]_vars

\* the manager the agent is given: built from a config of two enabled
\* servers and initialized, with "db" usable or failed
AgentManagers ==
    LET cf == <<[name |-> "fs", enabled |-> TRUE, params |-> "stdio"],
                [name |-> "db", enabled |-> TRUE, params |-> "stdio"]>>
    IN {[config |-> cf, clients |-> <<"fs", "db">>, failed |-> EmptyMap,
         attempts |-> <<[name |-> "fs", outcome |-> "ok"],
                        [name |-> "db", outcome |-> "ok"]>>],
        [config |-> cf, clients |-> <<"fs">>,
         failed |-> [n \in {"db"} |-> [params |-> "stdio", error |-> "ConnectError"]],
         attempts |-> <<[name |-> "fs", outcome |-> "ok"],
                        [name |-> "db", outcome |-> "ConnectError"]>>]}

\* an agent built, as ConversationController builds it, on the initialized
\* manager of the application and on a stored conversation
InitAgent ==
    /\ StreamInit
    /\ StreamerInit
    /\ NamesInit
    /\ CtlInit
    /\ \E last_conversation \in LastConversations : MCPAgent_init(last_conversation)
    /\ \E m \in AgentManagers :
          /\ mgrPc = "ready"
          /\ config_file = m.config
          /\ mcp_config = m.config
          /\ clients = m.clients
          /\ disabled_clients = <<>>
          /\ failed_clients = m.failed
          /\ initialized = TRUE
          /\ initPos = 2
          /\ attempts = m.attempts
          /\ exit_stack = [n \in {"fs", "db"} |->
                             IF n \in Range(m.clients)
                             THEN client_initialize("stdio") ELSE <<>>]
          /\ cleanPos = 0
          /\ cleanups = <<>>
          /\ initStage = 0
          /\ cleanErr = "none"
          /\ calls = [k \in CallIds |-> NoCall]

SpecAgent == InitAgent /\ [][AgentNext]_vars

\* the permit steps of one agent: run_tool_stream with a decision over the
\* pending calls, the tool calls of the batch and the model request that
\* follows
BatchNext ==
    \/ \E a \in BOOLEAN, ids \in IdLists : run_tool_stream(a, ids, <<>>)
    \/ \E i \in 1..3 : execute_one_tool_call_part_calls(i)
    \/ \E i \in 1..3, e \in BOOLEAN : execute_one_tool_call_part_returns(i, e)
    \/ gather_returns
    \/ gather_raises
    \/ \E parts \in ModelResponses : model_stream_ends(parts)
    \/ model_stream_raises

\* the exchanges of one agent with every way they end: the stream is read
\* to its end, the model stream raises, a tool call raises, or the consumer
\* stops iterating
AgentExchangeNext ==
    \/ BatchNext
    \/ \E prompt \in Prompts : chat_stream(prompt)
    \/ request_stream_abandoned

SpecAgentExchange == InitAgent /\ [][AgentExchangeNext]_vars

\* one MCPManager constructed from any config file and initialized, and a
\* caller that uses it directly (as a script or the agent's tests do): on
\* the ready manager it builds an MCPAgent and calls run_tool_stream, the
\* agent runs the tool call and then requests the model; when the
\* constructor raised, the caller is left with its exception; the caller
\* hands run_tool_stream one call, addressed to "fs", "db" or "web"
ManagedAgentNext ==
    \/ \E cf \in ConfigFiles : MCPManager_init(cf)
    \/ initialize
    \/ client_initialize_enters
    \/ \E o \in {"ok"} \cup HandshakeErrors \cup SseErrors :
          client_initialize_settles(o)
    \/ \E ps \in {<<CallA>>, <<CallB>>, <<CallX>>} :
          get_mcp_manager_raises(ps)
    \/ mgrPc = "ready" /\ \E ps \in {<<CallA>>, <<CallB>>, <<CallX>>} :
                             run_tool_stream(FALSE, <<>>, ps)
    \/ mgrPc = "ready" /\ execute_one_tool_call_part_calls(1)
    \/ mgrPc = "ready" /\ \E e \in BOOLEAN :
                             execute_one_tool_call_part_returns(1, e)
    \/ mgrPc = "ready" /\ gather_returns
    \/ mgrPc = "ready" /\ gather_raises
    \/ mgrPc = "ready" /\ \E parts \in ModelResponses :
                             model_stream_ends(parts)
    \/ mgrPc = "ready" /\ model_stream_raises

\* the event loop runs every coroutine of a gather that is ready, and the
\* tool servers answer the calls they received, except that the server of
\* the first call of a batch need not answer at all
LiveSpecBatch ==
    /\ InitAgent
    /\ [][BatchNext]_vars
    /\ WF_vars(\E i \in 1..3 : execute_one_tool_call_part_calls(i))
    /\ \A i \in 2..3 :
          WF_vars(\E e \in BOOLEAN : execute_one_tool_call_part_returns(i, e))

ManagerNext ==
    \/ \E cf \in ConfigFiles : MCPManager_init(cf)
    \/ initialize
    \/ client_initialize_enters
    \/ \E o \in {"ok"} \cup HandshakeErrors \cup SseErrors :
          client_initialize_settles(o)
    \/ cleanup
    \/ \E o \in {"ok"} \cup CleanupErrors : client_cleanup_resumes(o)
    \/ \E o \in {"ok"} \cup CleanupErrors : client_cleanup_settles(o)

\* one MCPManager, constructed from any config file, on which initialize()
\* and then cleanup() are called once (as the application lifespan does)
\* the state after start-up: nothing constructed, nothing produced
Init ==
    StreamInit /\ StreamerInit /\ MgrInit /\ AgentInit /\ NamesInit /\ CtlInit

SpecManager == Init /\ [][ManagerNext]_vars

\* nothing constructed yet; the conversation the caller hands to
\* MCPAgent(last_conversation=...) ends with a response that proposes the
\* tool calls A and B
InitManagedAgent ==
    /\ StreamInit
    /\ StreamerInit
    /\ MgrInit
    /\ NamesInit
    /\ CtlInit
    /\ MCPAgent_init(get_init_messages
                         \o <<ModelRequest(<<UserPromptPart("hello")>>),
                              ModelResponse(<<CallA, CallB>>)>>)

SpecManagedAgent == InitManagedAgent /\ [][ManagedAgentNext]_vars

\* one cached MCPManager and the callers that initialize it: application
\* startup and request dependencies, in any order and interleaving
ManagerCallsNext ==
    \/ \E cf \in ConfigFiles : MCPManager_init(cf)
    \/ \E k \in CallIds : get_mcp_manager(k)
    \/ \E k \in CallIds : init_mcp_manager(k)
    \/ \E k \in CallIds : client_initialize_resumes(k)
    \/ \E k \in CallIds, o \in {"ok"} \cup HandshakeErrors :
          initialize_call_settles(k, o)

SpecManagerCalls == Init /\ [][ManagerCallsNext]_vars

SpecConversations == Init /\ [][ConversationsNext]_vars

SpecExchanges == Init /\ [][ExchangesNext]_vars

\* every operation of the controller that names a conversation, called by
\* its owner or by another user, two calls at a time; chat and
\* permit_call_tool calls use one of the two request slots
OwnershipNext ==
    \/ CreateNext
    \/ \E u \in Users, id \in 0..MaxConversations : get_conversation_info(u, id)
    \/ DeleteNext
    \/ \E id \in 0..MaxConversations : chat("r1", id)
    \/ \E id \in 0..MaxConversations : permit_call_tool("r1", id)
    \/ \E u \in Users, m \in BOOLEAN : chat_select_returns("r1", u, m, <<>>)
    \/ \E u \in Users, m \in BOOLEAN :
          permit_select_returns("r1", u, m, <<>>,
                                [execute_all |-> TRUE, ids |-> <<>>])

SpecOwnership == Init /\ [][OwnershipNext]_vars

StreamNext ==
    \/ \E ms \in MaxSizes : StreamData_init(ms)
    \/ \E e \in EventValues : process_stream_event(e)
    \/ process_stream_exhausted
    \/ process_stream_raise
    \/ \E c \in Consumers, k \in 0..MaxEvents : Attach(c, k)
    \/ \E c \in Consumers : Detach(c)
    \/ \E c \in Consumers : Reattach(c)
    \/ \E c \in Consumers : stream_events(c)

SpecStream == Init /\ [][StreamNext]_vars

\* the registry, the producer of its stream and the responses reading it
StreamerNext ==
    \/ \E ms \in MaxSizes : create_stream(ms)
    \/ \E e \in EventValues : process_stream_event(e)
    \/ process_stream_exhausted
    \/ process_stream_raise
    \/ \E c \in Consumers, k \in 0..MaxEvents : PersistentEventSourceResponse_init(c, k)
    \/ \E c \in Consumers : response_disconnects(c)
    \/ \E c \in Consumers : response_returns(c)
    \/ \E c \in Consumers : stream_events(c)

SpecStreamer == Init /\ [][StreamerNext]_vars

\* one StreamData used through its public methods: process_stream and the
\* consumers as in SpecStream, and add_event called by any other holder
StreamDataNext ==
    \/ StreamNext
    \/ \E e \in EventValues : add_event_call(e)

SpecStreamData == Init /\ [][StreamDataNext]_vars

\* a consumer whose generator can run is eventually run: the event loop
\* schedules every runnable coroutine, and the response keeps pulling from
\* the generator while the client stays connected
LiveSpecStream ==
    Init /\ [][StreamNext]_vars
         /\ \A c \in Consumers : WF_vars(stream_events(c))

(***************************************************************************)
(* Properties of MCPAgent                                                  *)
(***************************************************************************)
\* every tool-return part of a turn stems from a forwarded call of
\* mcp_manager.call_tool with the same call id, tool name and arguments
ReturnsStemFromCalls(turn) ==
    \A k \in DOMAIN turn.parts :
       LET q == turn.parts[k] IN
       q.part_kind = "tool-return" =>
          \E i \in DOMAIN callLog :
             /\ callLog[i].forwarded
             /\ callLog[i].tool_call_id = q.tool_call_id
             /\ callLog[i].tool_name = q.tool_name
             /\ callLog[i].args = q.content.args
             /\ callLog[i].server = q.content.server
             /\ callLog[i].tool = q.content.tool

\* the calls of mcp_manager.call_tool made by the operation in progress
CallsOfExchange == SelectSeq(callLog, LAMBDA e : e.xid = xid)

\* C1: chat_stream never dispatches a tool call: every call of
\* mcp_manager.call_tool is made by a permit step, and a chat exchange never
\* waits for tool calls, whatever the history and the model's response.
C1_ChatNeverDispatches ==
    /\ \A i \in DOMAIN callLog : callLog[i].by = "permit"
    /\ op.name = "chat" => /\ agPc # "tools"
                           /\ CallsOfExchange = <<>>

\* C1 witness: a chat exchange has run to completion, the model answered
\* with tool-call parts, and no tool call was made.
C1_Witness ==
    /\ op.name = "chat"
    /\ agPc = "idle"
    /\ lastError = "none"
    /\ last_response # NoResponse
    /\ PendingIds(last_response) = {"A", "B"}
    /\ Last(history) = last_response
    /\ callLog = <<>>

\* C2: a chat_stream call made while the last turn is a response that still
\* carries tool-call parts ends with NeedUserPromptError, leaves history,
\* last response and usage as they were, and does not invoke the model.
C2_ChatRejectedWhilePending ==
    [][(xid' # xid /\ op'.name = "chat" /\ op'.pending # {})
       => /\ lastError' = "NeedUserPromptError"
          /\ history' = history
          /\ last_response' = last_response
          /\ usage' = usage
          /\ modelCalls' = modelCalls
          /\ agPc' = "idle"]_vars

\* C2 witness: after a chat exchange whose response proposed tool calls, the
\* next chat_stream was refused.
C2_Witness ==
    /\ op.name = "chat"
    /\ op.pending = {"A", "B"}
    /\ lastError = "NeedUserPromptError"
    /\ last_response # NoResponse
    /\ usage = 1
    /\ modelCalls = 1

\* the permit step in progress carries the decision "execute the ids {A}"
\* on a last response with the pending calls A and B
PermitOnlyA ==
    /\ op.name = "permit"
    /\ ~op.all
    /\ op.ids = <<"A">>
    /\ op.parts = <<>>
    /\ op.pending = {"A", "B"}

\* C3: the permit step with execute_tool_call_ids = {A} on pending calls
\* {A, B} dispatches one tool call, for A, never B, and the request turn it
\* appends before the follow-up model call holds a tool-return for A only.
C3_ExecuteByIdOnlyA ==
    PermitOnlyA =>
        /\ Len(tasks) = 1
        /\ tasks[1].part.tool_call_id = "A"
        /\ Len(CallsOfExchange) <= 1
        /\ \A i \in DOMAIN CallsOfExchange : CallsOfExchange[i].tool_call_id = "A"
        /\ agPc = "model" \/ (agPc = "idle" /\ lastError = "none")
           => /\ Len(CallsOfExchange) = 1
              /\ LET turn == IF agPc = "model" THEN Last(messages)
                             ELSE history[Len(history) - 1]
                 IN /\ turn.kind = "request"
                    /\ Len(turn.parts) = 1
                    /\ turn.parts[1].part_kind = "tool-return"
                    /\ turn.parts[1].tool_call_id = "A"

\* C3 witness: the permit step for {A} has run A and is requesting the model.
C3_Witness ==
    /\ PermitOnlyA
    /\ agPc = "model"
    /\ Len(CallsOfExchange) = 1
    /\ CallsOfExchange[1].tool_call_id = "A"
    /\ CallsOfExchange[1].forwarded
    /\ Last(messages).parts[1].tool_call_id = "A"

\* C4: every tool-return part carries the tool_call_id and tool_name of the
\* tool-call part whose arguments were sent to the tool server, in every
\* order of completion of the calls of a batch.
C4_ReturnsTaggedWithTheirCall ==
    /\ \A i \in DOMAIN tasks :
          tasks[i].st = "done" =>
             /\ tasks[i].ret.tool_call_id = tasks[i].part.tool_call_id
             /\ tasks[i].ret.tool_name = tasks[i].part.tool_name
             /\ tasks[i].ret.content.args = tasks[i].part.args
    /\ \A n \in DOMAIN history : ReturnsStemFromCalls(history[n])
    /\ \A n \in DOMAIN messages : ReturnsStemFromCalls(messages[n])

\* C4 witness: A was issued first and B second, B completed before A, and
\* both results are in the request turn sent to the model.
C4_Witness ==
    /\ op.name = "permit"
    /\ agPc = "model"
    /\ Len(tasks) = 2
    /\ tasks[1].part.tool_call_id = "A"
    /\ tasks[2].part.tool_call_id = "B"
    /\ doneOrder = <<2, 1>>
    /\ Len(Last(messages).parts) = 2
    /\ Last(messages).parts[1].tool_call_id = "A"
    /\ Last(messages).parts[2].tool_call_id = "B"

\* C13 (as stated): a permit step started while the last turn carries no
\* pending tool-call parts ends at once with the AlreadyResolved-kind error:
\* no tool is run, the model is not invoked, history and usage are unchanged.
C13_PermitWithoutPendingFails ==
    [][(xid' # xid /\ op'.name = "permit" /\ op'.pending = {})
       => /\ lastError' = "AlreadyResponsedError"
          /\ agPc' = "idle"
          /\ modelCalls' = modelCalls
          /\ callLog' = callLog
          /\ history' = history
          /\ usage' = usage]_vars

\* C14 (as stated): chat_stream started when the last turn carries no
\* pending tool-call parts (empty history, or a finished text answer) is
\* accepted: the user-prompt request turn is appended to the conversation
\* and the model is invoked.
C14_ChatAcceptedWithoutPending ==
    [][(xid' # xid /\ op'.name = "chat" /\ op'.pending = {})
       => /\ lastError' = "none"
          /\ agPc' = "model"
          /\ modelCalls' = modelCalls + 1
          /\ messages' = Append(IF history # <<>> THEN history
                                ELSE get_init_messages,
                                ModelRequest(<<UserPromptPart("hello")>>))]_vars

\* C15 (as stated, for the response turns): once a chat or permit operation
\* has settled with a response, the history ends with a response turn and
\* no two response turns are adjacent.
C15_TurnsAlternate ==
    (agPc = "idle" /\ last_response # NoResponse)
       => /\ Last(history).kind = "response"
          /\ \A n \in 1..(Len(history) - 1) :
                ~(history[n].kind = "response" /\ history[n + 1].kind = "response")

\* number of response turns of a conversation
NumResponses(h) == Len(SelectSeq(h, LAMBDA t : t.kind = "response"))

\* C16: an exchange whose model stream is read to its end appends exactly
\* one response turn (the last response) and adds exactly 1 to
\* usage.requests; usage.requests changes in no other step and never
\* decreases.
C16_OneResponseOneRequest ==
    /\ [][usage' >= usage]_vars
    /\ [][usage' # usage => (agPc = "model" /\ agPc' = "idle")]_vars
    /\ [][(agPc = "model" /\ agPc' = "idle" /\ lastError' = "none")
          => /\ usage' = usage + 1
             /\ last_response'.kind = "response"
             /\ history' = Append(messages, last_response')
             /\ NumResponses(history') = NumResponses(history) + 1]_vars

\* C16 witness: on a new agent a chat and then a permit-all exchange have
\* both been read to the end: five turns and usage.requests = 2.
C16_Witness ==
    /\ xid = 2
    /\ op.name = "permit"
    /\ op.all
    /\ op.pending = {"A", "B"}
    /\ agPc = "idle"
    /\ lastError = "none"
    /\ Len(history) = 5
    /\ usage = 2

\* the call ids of a sequence of parts or of log entries
IdsOf(seq) == {seq[i].tool_call_id : i \in DOMAIN seq}

\* C17: a permit step with execute_all_tool_calls set runs every pending
\* tool call of the last response, each once, whatever execute_tool_call_ids
\* lists.
C17_RunAllSupersedesIds ==
    (op.name = "permit" /\ op.all /\ op.pending # {})
       => /\ Len(tasks) = Cardinality(op.pending)
          /\ {tasks[i].part.tool_call_id : i \in DOMAIN tasks} = op.pending
          /\ agPc = "model"
                => /\ IdsOf(CallsOfExchange) = op.pending
                   /\ Len(CallsOfExchange) = Cardinality(op.pending)
                   /\ IdsOf(Last(messages).parts) = op.pending

\* C17 witness: run-all together with the id list [A] on pending {A, B}
\* has run A and B.
C17_Witness ==
    /\ op.name = "permit"
    /\ op.all
    /\ op.ids = <<"A">>
    /\ op.pending = {"A", "B"}
    /\ agPc = "model"
    /\ Len(CallsOfExchange) = 2
    /\ IdsOf(Last(messages).parts) = {"A", "B"}

\* C18: every tool call the server answered, with or without isError,
\* yields the tool-return part of its call carrying the answer; when all
\* selected calls are answered the parts are appended as one request turn
\* and the model is invoked.
C18_ToolFailureIsData ==
    op.name = "permit" =>
       /\ \A n \in DOMAIN doneOrder :
             LET t == tasks[doneOrder[n]] IN
             /\ t.st = "done"
             /\ t.ret.part_kind = "tool-return"
             /\ t.ret.tool_call_id = t.part.tool_call_id
       /\ (tasks # <<>> /\ agPc # "tools"
           /\ \A i \in DOMAIN tasks : tasks[i].st = "done")
             => /\ Last(messages).kind = "request"
                /\ Last(messages).parts = [i \in DOMAIN tasks |-> tasks[i].ret]
                /\ modelCalls >= 1
                /\ lastError \in {"none", "ModelError"}

\* C18 witness: of two permitted calls the first reported isError, the
\* second did not; both tool-return parts are in the request turn sent to
\* the model.
C18_Witness ==
    /\ op.name = "permit"
    /\ agPc = "model"
    /\ Len(tasks) = 2
    /\ tasks[1].st = "done"
    /\ tasks[2].st = "done"
    /\ tasks[1].ret.content.isError
    /\ ~tasks[2].ret.content.isError
    /\ Len(Last(messages).parts) = 2
    /\ Last(messages).parts[1].content.isError

\* C19 (as stated): for every server name without the separator and every
\* tool name, resolving the definition name built for the tool never fails
\* and returns exactly the server name and the tool name.
C19_NameRoundTrip ==
    /\ nmPc # "raised"
    /\ nmPc = "resolved" => /\ nmResult.server_name = nmServer
                            /\ nmResult.tool_name = nmTool

\* the server name is unknown to the config file, disabled by it, or
\* recorded as failed
Unusable(server_name) ==
    \/ server_name \notin Range(Names(config_file))
    \/ server_name \in Range(disabled_clients)
    \/ server_name \in DOMAIN failed_clients

\* C20 (as stated): a tool call addressed to an unknown, disabled or failed
\* server is never forwarded to a client; its coroutine ends with NotFound;
\* and a permit step that is handed only calls addressed to such servers
\* ends with NotFound, whichever of the three cases it is.
C20_UnusableServerNotFound ==
    /\ \A i \in DOMAIN callLog :
          Unusable(callLog[i].server[1]) => ~callLog[i].forwarded
    /\ \A i \in DOMAIN tasks :
          LET d == dispatch_tool_definition_name(tasks[i].part.tool_name) IN
          (d.ok /\ tasks[i].st # "new" /\ Unusable(d.server_name[1]))
             => /\ tasks[i].st = "raised"
                /\ tasks[i].ret = "NotFound"
    /\ (/\ agPc = "idle"
        /\ op.name = "permit"
        /\ op.parts # <<>>
        /\ \A i \in DOMAIN op.parts :
              Unusable(dispatch_tool_definition_name(op.parts[i].tool_name)
                          .server_name[1]))
           => lastError = "NotFound"

\* C32: the calls of one batch are dispatched without waiting for each
\* other: no call is still to be dispatched once a call of the batch has
\* finished; when the first call of a batch never returns, every other call
\* of the batch is still dispatched and finishes; and the model is requested
\* only once every call of the batch has returned, so the permit step itself
\* stays blocked.
C32_BatchFanOut ==
    /\ [](\A i \in DOMAIN tasks :
            tasks[i].st = "done" => \A j \in DOMAIN tasks : tasks[j].st # "new")
    /\ \A i \in 2..3 :
          (i \in DOMAIN tasks /\ tasks[i].st = "new")
             ~> (i \in DOMAIN tasks /\ tasks[i].st \in {"done", "raised"})
    /\ []((agPc = "model" /\ op.name = "permit")
            => \A i \in DOMAIN tasks : tasks[i].st = "done")

\* C32 witness: in a permit step the second call of the batch has returned
\* while the first, dispatched before it, has not; the step is still
\* waiting for the batch.
C32_Witness ==
    /\ op.name = "permit"
    /\ agPc = "tools"
    /\ Len(tasks) >= 2
    /\ tasks[1].st = "called"
    /\ tasks[2].st = "done"

\* C36 (as stated): within one permit step each pending tool call is
\* dispatched at most once and yields at most one tool-return part: no two
\* coroutines of the batch, and no two calls of mcp_manager.call_tool of
\* the step, carry the same tool_call_id.
C36_DispatchedOncePerStep ==
    /\ \A i, j \in DOMAIN callLog :
          (i # j /\ callLog[i].by = "permit" /\ callLog[i].xid = callLog[j].xid)
             => callLog[i].tool_call_id # callLog[j].tool_call_id
    /\ op.name = "permit" =>
          \A i, j \in DOMAIN tasks :
              i # j => tasks[i].part.tool_call_id # tasks[j].part.tool_call_id

\* the tool-call parts of the last response turn of a conversation
ProposedParts(msgs) ==
    LET responses == SelectSeq(msgs, LAMBDA m : m.kind = "response") IN
    IF responses = <<>> THEN {}
    ELSE Range(ToolCallParts(Last(responses)))

\* C37 (as stated): every tool call a permit step dispatches is a tool-call
\* part of the last response turn of the conversation, with the tool name,
\* the arguments and the call id the model proposed.
C37_OnlyProposedCalls ==
    /\ \A i \in DOMAIN callLog :
          (callLog[i].by = "permit" /\ callLog[i].xid = xid)
             => \E q \in ProposedParts(messages) :
                   /\ q.tool_call_id = callLog[i].tool_call_id
                   /\ q.tool_name = callLog[i].tool_name
                   /\ q.args = callLog[i].args
    /\ op.name = "permit" =>
          \A i \in DOMAIN tasks : tasks[i].part \in ProposedParts(messages)

\* C38: an exchange updates the agent in one step or not at all: history,
\* last response and usage change only together, in the step that ends a
\* model stream read to its end, where history becomes the messages of the
\* request followed by the response and usage counts one more request; the
\* step in which the model stream raises, a tool call raises or the
\* consumer stops iterating changes none of them.
C38_ExchangeAtomic ==
    [][/\ (<<history, last_response, usage>>' # <<history, last_response, usage>>)
           => /\ agPc = "model" /\ agPc' = "idle"
              /\ lastError' = "none"
              /\ last_response'.kind = "response"
              /\ history' = Append(messages, last_response')
              /\ usage' = usage + 1
       /\ (agPc # "idle" /\ agPc' = "idle" /\ lastError' # "none")
           => UNCHANGED <<history, last_response, usage>>]_vars

\* C38 witness: a first exchange was read to its end and counted; the
\* second one, a permit step whose tool calls ran, was abandoned by its
\* consumer, and history, last response and usage are those of the first.
C38_Witness ==
    /\ xid = 2
    /\ op.name = "permit"
    /\ agPc = "idle"
    /\ lastError = "GeneratorExit"
    /\ CallsOfExchange # <<>>
    /\ usage = 1
    /\ Last(history) = last_response
    /\ PendingIds(last_response) = {"A", "B"}

\* C39 (as stated): a proposed tool call, the tool-call part with one
\* tool_call_id of one response turn, is dispatched by at most one permit
\* step over the life of the conversation: two calls that reached a tool
\* server for the same call id of the same turn belong to the same permit
\* step.
C39_ExecutedOnceOverall ==
    \A i, j \in DOMAIN callLog :
        (/\ callLog[i].forwarded /\ callLog[j].forwarded
         /\ callLog[i].turn = callLog[j].turn
         /\ callLog[i].tool_call_id = callLog[j].tool_call_id)
            => callLog[i].xid = callLog[j].xid

(***************************************************************************)
(* Properties of MCPManager                                                *)
(***************************************************************************)
\* number of the three collections that hold server name n
SetsHolding(n) ==
    (IF n \in Range(clients) THEN 1 ELSE 0)
    + (IF n \in Range(disabled_clients) THEN 1 ELSE 0)
    + (IF n \in DOMAIN failed_clients THEN 1 ELSE 0)

\* C5 (as stated): whenever no initialize() call is in progress - after the
\* constructor call and after initialize() has returned - every server name
\* of the config is in exactly one of clients, disabled_clients and
\* failed_clients.
C5_ExactlyOneSet ==
    mgrPc \in {"construct_failed", "constructed", "ready"} =>
        \A n \in Range(Names(config_file)) : SetsHolding(n) = 1

\* C6: initialize() attempts the clients one after the other whatever the
\* outcome of the earlier ones, never leaves by a handshake exception, and
\* when it has returned every non-disabled server was attempted, the ones
\* that succeeded are usable (tools reported, calls forwarded) and the ones
\* that failed are in failed_clients with their ServerParams and the error.
C6_FailureIsolation ==
    /\ mgrPc # "init_raised"
    /\ mgrPc = "initializing" =>
          /\ Len(attempts) = initPos - 1
          /\ \A i \in DOMAIN attempts : attempts[i].name = Names(mcp_config)[i]
    /\ mgrPc = "ready" =>
          /\ Len(attempts) = Len(mcp_config)
          /\ \A i \in DOMAIN attempts :
               LET a == attempts[i] IN
               /\ a.name = mcp_config[i].name
               /\ a.outcome = "ok" =>
                     /\ a.name \in Range(clients)
                     /\ a.name \notin DOMAIN failed_clients
                     /\ a.name \in get_tools_servers
                     /\ call_tool_reaches(a.name)
               /\ a.outcome # "ok" =>
                     /\ a.name \notin Range(clients)
                     /\ a.name \in DOMAIN failed_clients
                     /\ failed_clients[a.name] =
                           [params |-> mcp_config[i].params, error |-> a.outcome]

\* C6 witness: the first client failed, the second was still attempted and
\* succeeded, and initialize() has returned
C6_Witness ==
    /\ mgrPc = "ready"
    /\ Len(attempts) = 2
    /\ attempts[1].outcome # "ok"
    /\ attempts[2].outcome = "ok"
    /\ clients = <<attempts[2].name>>
    /\ DOMAIN failed_clients = {attempts[1].name}

\* C7: initialized is false as long as a client's attempt has not settled,
\* is true once initialize() has returned, however many clients failed, and
\* never goes back to false.
C7_InitializedFlag ==
    /\ [](mgrPc \in {"constructed", "initializing"} => ~initialized)
    /\ [](mgrPc = "ready" => initialized)
    /\ [][initialized => initialized']_vars

\* C7 witness: every client failed, no client is usable, initialized is true
C7_Witness ==
    /\ mgrPc = "ready"
    /\ initialized
    /\ clients = <<>>
    /\ Len(attempts) = 2
    /\ \A i \in DOMAIN attempts : attempts[i].outcome # "ok"

\* the names of the config entries with enabled = false
DisabledNames(cf) == {cf[i].name : i \in {j \in DOMAIN cf : ~cf[j].enabled}}

\* C21 (as stated): construction from a config with any subset of entries
\* disabled succeeds, disabled_clients holds exactly the disabled names and
\* each once, no client exists for a disabled name, and no handshake is
\* ever attempted with a disabled server.
C21_DisabledRecorded ==
    mgrPc # "none" =>
        /\ mgrPc # "construct_failed"
        /\ Range(disabled_clients) = DisabledNames(config_file)
        /\ Len(disabled_clients) = Cardinality(DisabledNames(config_file))
        /\ Range(clients) \cap DisabledNames(config_file) = {}
        /\ \A i \in DOMAIN attempts :
              attempts[i].name \notin DisabledNames(config_file)

\* C22 (as stated): when cleanup() is over, however it ended, the cleanup of
\* every usable client has been invoked, also when the cleanup of some of
\* them raised.
C22_CleanupReachesAll ==
    mgrPc \in {"closed", "cleanup_raised"} =>
        \A n \in Range(clients) :
            \E i \in DOMAIN cleanups : cleanups[i].name = n

\* C23 (as stated): when cleanup() is over no client, usable or failed,
\* holds anything on its exit stack: every transport and session entered
\* by initialize() has been released.
C23_TransportsReleased ==
    mgrPc \in {"closed", "cleanup_raised"} =>
        \A n \in DOMAIN exit_stack : exit_stack[n] = <<>>

\* the clients whose client.initialize() has been entered by the running
\* initialize(): the loop is at clients[initPos], the earlier ones settled
StartedClients ==
    IF mgrPc = "initializing"
    THEN {clients[i] : i \in 1..initPos}
    ELSE {attempts[i].name : i \in DOMAIN attempts}

\* C31 (as stated): initialize() fans out: while initialize() is awaiting
\* handshakes, the attempt of every non-disabled client has been started,
\* none waits for the attempt of another client to settle.
C31_FanOut ==
    mgrPc = "initializing" => StartedClients = Range(clients)

\* C34 (as stated): over the lifetime of one MCPManager client.initialize()
\* is invoked at most once per server, whatever the callers of
\* init_mcp_manager and get_mcp_manager do: no server has two attempts.
C34_InitializedOnce ==
    \A n \in ServerNames :
        Cardinality({i \in DOMAIN attempts : attempts[i].name = n}) <= 1

\* the transport context manager MCPClient.initialize names for each kind
\* of ServerParams
TransportOf(params) == IF params = "stdio" THEN "stdio_client" ELSE "sse_client"

\* the transports a client's exit stack holds
TransportsHeld(n) ==
    SelectSeq(exit_stack[n], LAMBDA x : x \in {"stdio_client", "sse_client"})

\* C35 (as stated): a client whose initialize() succeeded holds exactly one
\* transport, of the kind its ServerParams name, until it is cleaned up;
\* and the initialize() of a client with SSE parameters does not end in an
\* error of its own making, so that such a client can become usable.
C35_OneTransportOfKind ==
    /\ mgrPc \in {"initializing", "ready"} =>
          \A i \in DOMAIN attempts :
              attempts[i].outcome = "ok" =>
                  TransportsHeld(attempts[i].name) =
                      <<TransportOf(ParamsOf(mcp_config, attempts[i].name))>>
    /\ \A i \in DOMAIN attempts :
          ParamsOf(mcp_config, attempts[i].name) = "sse" =>
              attempts[i].outcome \notin SseErrors

(***************************************************************************)
(* Properties of StreamData                                                *)
(***************************************************************************)
\* the consumer is suspended in wait() on an Event that is not set
Blocked(c) == cPc[c] = "waiting" /\ cWait[c] \notin evSet

\* C8: with no capacity eviction, a consumer that first attached with
\* start_index = k has received exactly the events at production positions
\* k, k+1, ... in order and each once, across a detach and a reattach at the
\* number of events seen; it blocks or ends only when nothing is left unread.
C8_InOrderExactlyOnce ==
    \A c \in Consumers :
        evictions = 0 =>
            /\ cFirst[c] + Len(cAll[c]) <= Len(produced) \/ cAll[c] = <<>>
            /\ cAll[c] = SubSeq(produced, cFirst[c] + 1, cFirst[c] + Len(cAll[c]))
            /\ cPc[c] \in {"run", "waiting", "done"} =>
                   cIdx[c] = cFirst[c] + Len(cAll[c])
            /\ (Blocked(c) \/ cPc[c] = "done") =>
                   cFirst[c] + Len(cAll[c]) >= Len(produced)

\* C8 witness: a consumer read one event, detached, reattached at 1 and has
\* read the second event up to the end of the stream
C8_Witness ==
    /\ evictions = 0
    /\ cPc["c1"] = "done"
    /\ cFirst["c1"] = 0
    /\ cAttach["c1"].start = 1
    /\ Len(cAll["c1"]) = 2
    /\ cAll["c1"][1] # cAll["c1"][2]

\* C9 (as stated): a consumer attached with start_index = k to a stream that
\* is not completed and holds exactly k events has been yielded nothing
\* while no event was added, and once it has run after one add_event it has
\* been yielded exactly that event; a consumer attached to a completed
\* stream at or beyond its end is yielded nothing and never waits.
C9_SubscribeAtEnd ==
    \A c \in Consumers :
        LET a == cAttach[c] IN
        cPc[c] \in {"run", "waiting", "done"} =>
            /\ (~a.done /\ a.start = a.len) =>
                  /\ Len(produced) = a.prod => cGot[c] = <<>>
                  /\ (Len(produced) = a.prod + 1 /\ (Blocked(c) \/ cPc[c] = "done"))
                        => cGot[c] = <<produced[a.prod + 1]>>
            /\ (a.done /\ a.start >= a.len) =>
                  /\ cGot[c] = <<>>
                  /\ cPc[c] # "waiting"

\* C10: completed never goes back to false, the end of production (source
\* exhausted or raising) marks the stream completed, a consumer that has
\* ended has read to the end of the buffer, and every consumer attached to a
\* completed stream eventually ends (or is detached by its client).
C10_CompletionReleasesConsumers ==
    /\ [][completed => completed']_vars
    /\ [](srcPc \in {"exhausted", "raised"} => completed)
    /\ [](\A c \in Consumers : cPc[c] = "done" => cIdx[c] >= Len(events))
    /\ \A c \in Consumers :
          (completed /\ cPc[c] \in {"run", "waiting"})
              ~> (cPc[c] \in {"done", "closed"})

\* C10 witness: the source raised while a consumer, having read an event,
\* was waiting on the current Event; the consumer has ended
C10_Witness ==
    /\ srcPc = "raised"
    /\ cPc["c1"] = "done"
    /\ evGen > 0
    /\ cWait["c1"] = evGen
    /\ Len(cGot["c1"]) >= 1

\* what stream_events is still to yield to the consumer from the buffer
Unread(ev, idx) == SubSeq(ev, idx + 1, Len(ev))

\* C24 (as stated): when add_event evicts the oldest event, a consumer that
\* has read past it (its current_index is at least 1 and within the buffer)
\* is unaffected: what it is still to be yielded is what it was before,
\* followed by the added event.
C24_EvictionSparesReaders ==
    [][\A c \in Consumers :
          (/\ evictions' = evictions + 1
           /\ cPc[c] \in {"run", "waiting"}
           /\ cIdx[c] >= 1
           /\ cIdx[c] <= Len(events))
              => Unread(events', cIdx'[c]) =
                     Append(Unread(events, cIdx[c]), Last(produced'))]_vars

\* C33 (as stated): a consumer blocked in stream_events waits on the Event
\* that the next add_event or mark_completed sets, so it misses no wake-up;
\* and one add_event wakes every consumer that has read all events and is
\* blocked, each of which is then yielded the added event.
C33_AddEventWakesAll ==
    /\ [](\A c \in Consumers : Blocked(c) => cWait[c] = evGen)
    /\ [][\A c \in Consumers :
            (/\ Len(produced') = Len(produced) + 1
             /\ Blocked(c)
             /\ cIdx[c] = Len(events))
                => /\ cWait[c] \in evSet'
                   /\ Unread(events', cIdx'[c]) = <<Last(produced')>>]_vars

\* C25 (as stated): once completed is true, no step appends to or evicts
\* from events.
C25_CompletedFreezesEvents ==
    [][completed => events' = events]_vars

(***************************************************************************)
(* Properties of PersistentStreamer and PersistentEventSourceResponse      *)
(***************************************************************************)
\* the larger of two numbers
Max(a, b) == IF a >= b THEN a ELSE b

\* C11 (as stated): a response constructed for the stream id after
\* delete_stream has removed the completed stream fails: it holds no
\* StreamData, and no stream is registered under the id again.
C11_AttachAfterDeleteFails ==
    \A c \in Consumers :
        cLate[c] => /\ cObj[c] = "none"
                    /\ ~has_stream(StreamId)

\* C12 (as stated): after a response disconnected from a stream that was not
\* completed, the stream is still registered; the end of production marks
\* it completed; and a response constructed after completion with
\* start_index = n ends having been yielded every event at production
\* position n or later that the buffer still held.
C12_DetachKeepsProduction ==
    \A c \in Consumers :
        /\ (cPc[c] = "closed" /\ cResume[c] = "open")
              => has_stream(StreamId) /\ streams[StreamId] = cObj[c]
        /\ srcPc \in {"exhausted", "raised"} => completed
        /\ (/\ cResume[c] = "open"
            /\ cObj[c] = "produced"
            /\ cAttach[c].done
            /\ cPc[c] \in {"done", "ended"})
              => cGot[c] = SubSeq(produced,
                                  Max(cAttach[c].start, evictions) + 1,
                                  Len(produced))

\* the consumer's response reads the produced stream and has been yielded
\* every event the buffer holds from its start index on
TerminalRead(c) ==
    /\ cObj[c] = "produced"
    /\ cPc[c] \in {"run", "waiting", "done"}
    /\ cIdx[c] >= Len(events)

\* C26 (as stated): the stream id leaves the registry only in the teardown
\* of a response that has been delivered its terminal read; the teardown of
\* a response that had not read to the end leaves the entry in place.
C26_RetainedUntilTerminalRead ==
    [][(has_stream(StreamId) /\ StreamId \notin DOMAIN streams')
          => \E c \in Consumers : TerminalRead(c) /\ cPc'[c] \in {"closed", "ended"}]_vars

(***************************************************************************)
(* Properties of ConversationController                                    *)
(***************************************************************************)
\* the last call was a chat or permit_call_tool that passed the checks of
\* existence, ownership and model
ExchangeAdmitted ==
    /\ resp.op \in {"chat", "permit_call_tool"}
    /\ resp.status \notin {"404", "403", "501"}

\* C27 (as stated): an exchange started on a conversation while another
\* exchange on the same conversation was in flight is answered Busy.
C27_SecondExchangeBusy ==
    (ExchangeAdmitted /\ resp.overlap) => resp.status = "Busy"

\* C28 (as stated): after a chat on an existing conversation of the caller
\* the call has returned normally and the stored row holds the agent's
\* messages, ending with the response turn, and its usage, from which a
\* later request builds its agent.
C28_ExchangePersisted ==
    (ExchangeAdmitted /\ resp.op = "chat") =>
        /\ resp.status = "ok"
        /\ "usage" \in ConversationColumns
        /\ table[resp.id].messages # <<>>
        /\ Last(table[resp.id].messages).kind = "response"

\* a delete_conversation call gets the result of its SELECT in this step
DeleteSelected(r) ==
    /\ reqs[r].kind = "delete"
    /\ reqs[r].pc = "select"
    /\ reqs'[r].pc # "select"

\* C29 (as stated): info by the owner returns the conversation exactly when
\* a row of that id is stored, the owner's list is the owner's stored rows,
\* each once, a created conversation has no messages, and info or delete on
\* an id that is not stored answers 404 and leaves the table unchanged.
C29_RetrievableIffStored ==
    /\ [][(resp' # resp /\ resp'.op = "info") =>
             IF resp'.id \in DOMAIN table
             THEN (table[resp'.id].user_id = resp'.user =>
                     (resp'.status = "ok" /\ resp'.datas = <<resp'.id>>))
             ELSE resp'.status = "404" /\ table' = table]_vars
    /\ [][(resp' # resp /\ resp'.op = "list" /\ resp'.status # "400") =>
             /\ resp'.status = "ok"
             /\ Range(resp'.datas) =
                   {i \in DOMAIN table : table[i].user_id = resp'.user}
             /\ Len(resp'.datas) = Cardinality(Range(resp'.datas))]_vars
    /\ [][(resp' # resp /\ resp'.op = "create" /\ resp'.id \in DOMAIN table) =>
             table[resp'.id].messages = <<>>]_vars
    /\ [][\A r \in Requests :
             (DeleteSelected(r) /\ reqs[r].id \notin DOMAIN table) =>
                /\ resp'.op = "delete"
                /\ resp'.status = "404"
                /\ table' = table]_vars

\* the call ids a permit request selects among the pending tool calls of
\* the conversation the agent is built on
SelectedIds(r) ==
    LET last_conversation ==
            IF r.redacted_messages # <<>> THEN r.redacted_messages
            ELSE table[r.id].messages
        pending == IF last_conversation = <<>> THEN {}
                   ELSE PendingIds(Last(last_conversation))
    IN IF r.execute_all THEN pending ELSE pending \cap Range(r.ids)

\* C30 (as stated): a permit_call_tool on an existing conversation of the
\* caller returns normally having dispatched exactly the tool calls its
\* decision selects: all pending ones, the listed ids, or none.
C30_DecisionApplied ==
    (ExchangeAdmitted /\ resp.op = "permit_call_tool") =>
        /\ resp.status = "ok"
        /\ resp.dispatched = SelectedIds(resp)

\* C40: info, chat and permit_call_tool called by a user who is not the
\* owner of a stored conversation are answered 403, the answer carries
\* nothing of the conversation, and the step leaves the table as it was,
\* requests no model and dispatches no tool call; delete_conversation by
\* such a user is answered 403 once its SELECT has returned and the call is
\* over; a row leaves the table only when the commit of a
\* delete_conversation call of its owner returns, and no stored row is ever
\* changed.
C40_NonOwnerForbidden ==
    /\ [][(/\ resp' # resp
            /\ resp'.op \in {"info", "chat", "permit_call_tool"}
            /\ resp'.id \in DOMAIN table
            /\ table[resp'.id].user_id # resp'.user)
               => /\ resp'.status = "403"
                  /\ resp'.datas = <<>>
                  /\ resp'.dispatched = {}
                  /\ table' = table
                  /\ modelCalls' = modelCalls
                  /\ callLog' = callLog]_vars
    /\ [][\A r \in Requests :
            (/\ DeleteSelected(r)
             /\ reqs[r].id \in DOMAIN table
             /\ table[reqs[r].id].user_id # reqs[r].user)
                => /\ resp' = Response("delete", reqs[r].user, reqs[r].id, "403")
                   /\ reqs'[r] = IdleRequest
                   /\ table' = table]_vars
    /\ [][\A id \in DOMAIN table :
            IF id \in DOMAIN table'
            THEN table'[id] = table[id]
            ELSE \E r \in Requests :
                    /\ reqs[r].kind = "delete"
                    /\ reqs[r].pc = "commit"
                    /\ reqs[r].id = id
                    /\ reqs[r].user = table[id].user_id
                    /\ reqs'[r] = IdleRequest]_vars

\* C40 witness: a user who does not own a stored conversation called
\* delete_conversation on it, was answered 403, and the row is still there.
C40_Witness ==
    /\ resp.op = "delete"
    /\ resp.status = "403"
    /\ resp.id \in DOMAIN table
    /\ table[resp.id].user_id # resp.user

=============================================================================
